---- MODULE Spec2Model ----
(***************************************************************************)
(* A model of PyLg (src/pylg/pylg.py): the ClassNameStack, the PyLg log    *)
(* file, the TraceFunction decorator and the trace() line formatter.       *)
(*                                                                         *)
(* Text is a sequence of one-character strings: <<"a", " ", "b">> is the   *)
(* Python string "a b".  A Python call that can raise gives a record       *)
(* [exc |-> <type name or "None">, val |-> <its value, or the text of the  *)
(* fault>].                                                                *)
(***************************************************************************)
EXTENDS Integers, Sequences, FiniteSets, TLC

\* ------------------------------------------------------------------ bounds

\* Longest message the formatter specification draws.
MaxLen == 4

\* Largest message_width the formatter specification draws (0 = "unlimited").
MaxWidth == 3

\* The characters messages are drawn from: two letters, the blank and the
\* line break.  (No tab and no hyphen between letters: textwrap's tab
\* expansion and its break-after-hyphen rule are outside the model.)
Chars == {"a", "b", " ", "\n"}

\* Longest message of the runs in truncate mode.
TruncLen == 5

\* Most strings in the log file (header included) of a run of the sink
\* specification, and the longest text such a run traces or writes.
MaxRecords == 3

SinkLen == 1

\* Most ClassNameStack.insert calls, and most pop calls, of a run of the
\* stack specification.
MaxPushes == 3

MaxPops == 3

\* Most traced invocations started in a run, and most of them running at
\* once (one inside the other).
MaxCalls == 2

MaxDepth == 2

\* Most invocations of a run of single invocations.
OneCalls == 1

\* Most traced invocations of a run of the binding specification.
BindCalls == 2

\* The same for the runs of two execution contexts.
ThreadCalls == 3

\* The same for the runs of nested invocations.
NestCalls == 3

NestDepth == 3

\* The positive message_width of the runs of traced calls: wide enough for
\* their records.
RunWidth == 40

\* A positive message_width too narrow for their messages.
NarrowWidth == 12

\* The column widths the configurations draw.
FilenameWidth == 2

LinenoWidth == 3

FunctionWidth == 5

\* ------------------------------------------------------------- text helpers

\* Python's None as a value, unlike every text
None == <<"None">>

\* no fault raised
NoFault == "None"

Ok(v) == [exc |-> NoFault, val |-> v]

\* a fault of type e whose str() is text
RaiseText(e, text) == [exc |-> e, val |-> text]

\* str() of the faults the formatter's calls raise
FaultText(e) ==
    CASE e = "ValueError" ->
            <<"i", "n", "v", "a", "l", "i", "d", " ", "w", "i", "d", "t", "h", " ", "0", " ", "(", "m", "u", "s", "t", " ", "b", "e", " ", ">", " ", "0", ")">>
      [] e = "AttributeError" ->
            <<"t", "y", "p", "e", " ", "o", "b", "j", "e", "c", "t", " ", "'", "C", "l", "a", "s", "s", "N", "a", "m", "e", "S", "t", "a", "c", "k", "'", " ", "h", "a", "s", " ", "n", "o", " ", "a", "t", "t", "r", "i", "b", "u", "t", "e", " ", "'", "g", "e", "t", "'">>
      [] OTHER -> <<>>

Raise(e) == RaiseText(e, FaultText(e))

Last(s) == s[Len(s)]

Front(s) == SubSeq(s, 1, Len(s) - 1)

RECURSIVE Flatten(_)
\* ''.join(parts)
Flatten(parts) ==
    IF parts = <<>> THEN <<>> ELSE Head(parts) \o Flatten(Tail(parts))

\* "{:{w}}".format("", w=n): n blanks
Spaces(n) == [i \in 1..n |-> " "]

Zeros(n) == [i \in 1..n |-> "0"]

\* the k-th smallest of a set of numbers
Nth(S, k) == CHOOSE i \in S : Cardinality({j \in S : j < i}) = k - 1

\* chunk.strip() == '' for a chunk of a line (whitespace was munged to blanks)
IsBlank(chunk) == \A i \in 1..Len(chunk) : chunk[i] = " "

Digit(d) == CASE d = 0 -> "0" [] d = 1 -> "1" [] d = 2 -> "2" [] d = 3 -> "3"
              [] d = 4 -> "4" [] d = 5 -> "5" [] d = 6 -> "6" [] d = 7 -> "7"
              [] d = 8 -> "8" [] d = 9 -> "9"

RECURSIVE Decimal(_)
\* str(n) for a natural number n
Decimal(n) == IF n < 10 THEN <<Digit(n)>> ELSE Decimal(n \div 10) \o <<Digit(n % 10)>>

\* "{x:{w}.{w}}".format(x=text, w=w): left-justified, cut and padded to w
Column(text, w) ==
    IF Len(text) >= w THEN SubSeq(text, 1, w) ELSE text \o Spaces(w - Len(text))

\* "{lineno:0{w}}".format(lineno=n, w=w): zero-padded to at least w digits
ZeroPad(n, w) == Zeros(w - Len(Decimal(n))) \o Decimal(n)

\* where the lines of s end: at each line break, and at the end of s when
\* text follows the last line break
line_ends(s) ==
    {i \in 1..Len(s) : s[i] = "\n"}
    \cup (IF s # <<>> /\ Last(s) # "\n" THEN {Len(s) + 1} ELSE {})

\* the line of s that ends at the k-th of ends
line_of(s, ends, k) ==
    SubSeq(s, IF k = 1 THEN 1 ELSE Nth(ends, k - 1) + 1, Nth(ends, k) - 1)

\* str.splitlines() on the model's alphabet
splitlines(s) ==
    [k \in 1..Cardinality(line_ends(s)) |-> line_of(s, line_ends(s), k)]

\* ------------------------------------------------------------ textwrap.wrap

\* where the chunks of text start: where blanks follow non-blanks or
\* non-blanks follow blanks
chunk_starts(text) ==
    {i \in 1..Len(text) : i = 1 \/ ((text[i] = " ") # (text[i - 1] = " "))}

\* the k-th chunk of text
chunk_of(text, starts, k) ==
    SubSeq(text, Nth(starts, k),
           IF k = Cardinality(starts) THEN Len(text) ELSE Nth(starts, k + 1) - 1)

\* TextWrapper._split: maximal runs of blanks and of non-blanks
split_chunks(text) ==
    [k \in 1..Cardinality(chunk_starts(text)) |->
        chunk_of(text, chunk_starts(text), k)]

RECURSIVE fill_line(_, _, _, _)
\* the inner "while chunks" loop of _wrap_chunks: take chunks while they fit
fill_line(chunks, cur_line, cur_len, width) ==
    IF chunks # <<>> /\ cur_len + Len(Head(chunks)) <= width
    THEN fill_line(Tail(chunks), Append(cur_line, Head(chunks)),
                   cur_len + Len(Head(chunks)), width)
    ELSE [chunks |-> chunks, cur_line |-> cur_line, cur_len |-> cur_len]

\* _handle_long_word as it would be with break_long_words off: the long
\* word is kept whole, on a line of its own
handle_long_word_unbroken(st, width) ==
    IF st.cur_line = <<>>
    THEN [chunks |-> Tail(st.chunks),
          cur_line |-> <<Head(st.chunks)>>,
          cur_len |-> Len(Head(st.chunks))]
    ELSE st

\* TextWrapper._handle_long_word with break_long_words: as much of the next
\* chunk as fits goes on the current line
handle_long_word(st, width) ==
    LET space_left == IF width < 1 THEN 1 ELSE width - st.cur_len
        chunk == Head(st.chunks)
    IN [chunks |-> <<SubSeq(chunk, space_left + 1, Len(chunk))>> \o Tail(st.chunks),
        cur_line |-> Append(st.cur_line, SubSeq(chunk, 1, space_left)),
        cur_len |-> st.cur_len + space_left]

RECURSIVE wrap_chunks(_, _, _)

\* the end of one pass of the outer loop of _wrap_chunks: a trailing blank
\* chunk is dropped and the line, if anything is left of it, is stored
end_line(cur_line, lines) ==
    IF cur_line # <<>> /\ IsBlank(Last(cur_line))
    THEN (IF Len(cur_line) > 1 THEN Append(lines, Flatten(Front(cur_line)))
          ELSE lines)
    ELSE IF cur_line # <<>> THEN Append(lines, Flatten(cur_line))
    ELSE lines

\* one pass of the outer loop, st being the state after its inner loop
wrap_line(st, lines, width) ==
    IF st.chunks # <<>> /\ Len(Head(st.chunks)) > width
    THEN wrap_chunks(handle_long_word(st, width).chunks,
                     end_line(handle_long_word(st, width).cur_line, lines),
                     width)
    ELSE wrap_chunks(st.chunks, end_line(st.cur_line, lines), width)

\* _wrap_chunks dropping the first chunk of every line after the first,
\* blank or not
wrap_chunks_dropping(chunks, lines, width) ==
    IF chunks = <<>> THEN lines
    ELSE IF lines # <<>>
    THEN wrap_line(fill_line(Tail(chunks), <<>>, 0, width), lines, width)
    ELSE wrap_line(fill_line(chunks, <<>>, 0, width), lines, width)

\* TextWrapper._wrap_chunks (max_lines None, no indents, drop_whitespace)
wrap_chunks(chunks, lines, width) ==
    IF chunks = <<>> THEN lines
    ELSE IF IsBlank(Head(chunks)) /\ lines # <<>>
    THEN wrap_line(fill_line(Tail(chunks), <<>>, 0, width), lines, width)
    ELSE wrap_line(fill_line(chunks, <<>>, 0, width), lines, width)

\* textwrap.wrap(text, width) for one line of text
wrap(text, width) ==
    IF width <= 0 THEN Raise("ValueError")
    ELSE Ok(wrap_chunks(split_chunks(text), <<>>, width))

\* ------------------------------------------------------------ program state

VARIABLES
    stack,      \* ClassNameStack.stack: the class names, last pushed last
    disabled,   \* ClassNameStack.disable() has replaced insert, pop and get
    settings,   \* the PyLg class attributes configure sets, or NoSettings
    wfile,      \* PyLg.wfile: "None" or "open"
    log,        \* the log file: the strings written to it, in order
    flushed,    \* how many of these strings have been flushed
    released,   \* what a replaced file object wrote to the file on its release
    last,       \* the last call made by the program and how it ended
    pushes,     \* number of ClassNameStack.insert calls made
    pops,       \* number of ClassNameStack.pop calls made
    emptypops,  \* number of these pop calls that found the stack empty
    tf,         \* the TraceFunction instance made for each callable, if any
    frames,     \* the traced invocations whose callable is running, outermost first
    exited,     \* os._exit has ended the process
    calls       \* number of traced invocations started

vars ==
    <<stack, disabled, settings, wfile, log, flushed, released, last, pushes,
      pops, emptypops, tf, frames, exited, calls>>

calling == <<tf, frames, exited, calls>>

counters == <<pushes, pops, emptypops>>

NoSettings == [configured |-> FALSE]

NoCall == [op |-> "none"]

\* datetime.now() rendered by strftime(time_format) or by str(): the clock
\* is the environment's, the model shows it as one fixed text
TimeText == <<"1", "2", ":", "0", "0">>

\* "=== Log initialised at {} ===\n\n".format(datetime.now())
Header ==
    <<"=", "=", "=", " ", "L", "o", "g", " ", "i", "n", "i", "t", "i", "a",
      "l", "i", "s", "e", "d", " ", "a", "t", " ">> \o TimeText
    \o <<" ", "=", "=", "=", "\n", "\n">>

\* ---------------------------------------------------------- ClassNameStack

\* insert that puts the class name under the entry on top
insert_under(stk, dis, classname) ==
    IF dis THEN stk
    ELSE IF stk = <<>> THEN <<classname>>
    ELSE Append(Append(Front(stk), classname), Last(stk))

\* insert that does not push a class name already on top
insert_once(stk, dis, classname) ==
    IF dis \/ (stk # <<>> /\ Last(stk) = classname) THEN stk
    ELSE Append(stk, classname)

\* ClassNameStack.insert: the stack after insert(classname)
insert(stk, dis, classname) == IF dis THEN stk ELSE Append(stk, classname)

\* pop taking the oldest entry instead of the newest
pop_oldest(stk, dis) ==
    IF dis THEN [rv |-> None, stack |-> stk]
    ELSE IF stk # <<>> THEN [rv |-> Head(stk), stack |-> Tail(stk)]
    ELSE [rv |-> None, stack |-> stk]

\* ClassNameStack.pop: the value returned and the stack left
pop(stk, dis) ==
    IF dis THEN [rv |-> None, stack |-> stk]
    ELSE IF stk # <<>> THEN [rv |-> Last(stk), stack |-> Front(stk)]
    ELSE [rv |-> None, stack |-> stk]

\* ClassNameStack.peek: disable() does not replace it
peek(stk, dis) == IF stk # <<>> THEN Last(stk) ELSE None

\* ClassNameStack.get: defined by disable() only; the class has no such
\* attribute before, so the call raises AttributeError
get(stk, dis) == IF dis THEN Ok(None) ELSE Raise("AttributeError")

\* ------------------------------------------------------------------- trace

\* the fixed columns of a record: time, file name, line number, function
fixed_columns(cfg, fn, functionname) ==
    (IF cfg.trace_time THEN TimeText \o <<" ", " ">> ELSE <<>>)
    \o (IF cfg.trace_filename
        THEN Column(fn.filename, cfg.filename_column_width) \o <<" ", " ">>
        ELSE <<>>)
    \o (IF cfg.trace_lineno
        THEN ZeroPad(fn.lineno, cfg.lineno_width) \o <<":", " ">>
        ELSE <<>>)
    \o (IF cfg.trace_function
        THEN Column(functionname, cfg.function_column_width) \o <<" ", " ">>
        ELSE <<>>)

\* "{m:{w}}".format(m=text, w=w): padded to w, never cut
PadTo(text, w) == text \o Spaces(w - Len(text))

RECURSIVE continuation_unaligned(_, _)
\* the continuation lines written without the alignment blanks
continuation_unaligned(wrlines, premsglen) ==
    IF wrlines = <<>> THEN <<>>
    ELSE <<"\n">> \o Head(wrlines)
         \o continuation_unaligned(Tail(wrlines), premsglen)

RECURSIVE continuation(_, _)
\* "for wrline in wrapped[1:]": each on a new line under the message column
continuation(wrlines, premsglen) ==
    IF wrlines = <<>> THEN <<>>
    ELSE <<"\n">> \o Spaces(premsglen) \o Head(wrlines)
         \o continuation(Tail(wrlines), premsglen)

\* "if not wrapped: wrapped = ['']" and "if not lines: lines = ['']"
or_empty(lines) == IF lines = <<>> THEN <<(<<>>)>> ELSE lines

\* a result with text put before its value
prepend(text, r) == IF r.exc # NoFault THEN r ELSE Ok(text \o r.val)

\* a truncated line with its mark, again being the first sub-line wrapped
\* once more to message_width - 1
marked_line(width, again) ==
    IF width > 1
    THEN IF again.val = <<>> THEN Raise("AssertionError")
         ELSE Ok(PadTo(again.val[1], width - 1) \o <<"\\", "\n">>)
    ELSE IF width = 1 THEN Ok(<<"\\", "\n">>)
    ELSE Raise("AssertionError")

\* what trace appends for one wrapped line, after the alignment blanks
line_body(cfg, wrapped, premsglen) ==
    IF cfg.message_wrap
    THEN Ok(wrapped[1] \o continuation(Tail(wrapped), premsglen) \o <<"\n">>)
    ELSE IF cfg.message_mark_truncation /\ Len(wrapped) > 1
    THEN marked_line(cfg.message_width,
                     wrap(wrapped[1], cfg.message_width - 1))
    ELSE Ok(wrapped[1] \o <<"\n">>)

\* the loop body of trace for the line of index idx, w0 being the result of
\* textwrap.wrap(line, message_width)
wrapped_line(cfg, premsglen, idx, w0) ==
    IF w0.exc # NoFault THEN w0
    ELSE prepend(IF idx # 0 THEN Spaces(premsglen) ELSE <<>>,
                 line_body(cfg, or_empty(w0.val), premsglen))

\* what the loop body of trace appends for one line of the message
message_line(cfg, premsglen, idx, line) ==
    wrapped_line(cfg, premsglen, idx, wrap(line, cfg.message_width))

\* two results in sequence: the first fault, or the texts joined
in_sequence(one, rest) ==
    IF one.exc # NoFault THEN one ELSE prepend(one.val, rest)

RECURSIVE message_lines(_, _, _, _)
\* the "for idx, line in enumerate(lines)" loop of trace, from index idx
message_lines(cfg, premsglen, lines, idx) ==
    IF idx >= Len(lines) THEN Ok(<<>>)
    ELSE in_sequence(message_line(cfg, premsglen, idx, lines[idx + 1]),
                     message_lines(cfg, premsglen, lines, idx + 1))

ModuleScope == <<"<", "m", "o", "d", "u", "l", "e", ">">>

\* the function name of a record, qualified by the class name found
qualified(classname, functionname) ==
    IF classname # None /\ classname # ModuleScope
    THEN classname \o <<".">> \o functionname
    ELSE functionname

\* the message laid out without a line for an empty message
with_columns_skipping_empty(cfg, msg, message) ==
    IF ~cfg.trace_message THEN Ok(msg)
    ELSE prepend(msg, message_lines(cfg, Len(msg), splitlines(message), 0))

\* trace after the fixed columns msg are laid out
with_columns(cfg, msg, message) ==
    IF ~cfg.trace_message THEN Ok(msg)
    ELSE prepend(msg, message_lines(cfg, Len(msg),
                                    or_empty(splitlines(message)), 0))

\* trace after ClassNameStack.get() gave classname
with_classname(cfg, classname, fn, message) ==
    IF classname.exc # NoFault THEN classname
    ELSE IF ~cfg.configured
    THEN RaiseText("AttributeError",
                   <<"t", "y", "p", "e", " ", "o", "b", "j", "e", "c", "t", " ", "'", "P", "y", "L", "g", "'", " ", "h", "a", "s", " ", "n", "o", " ", "a", "t", "t", "r", "i", "b", "u", "t", "e", " ", "'", "t", "r", "a", "c", "e", "_", "t", "i", "m", "e", "'">>)
    ELSE with_columns(cfg,
                      fixed_columns(cfg, fn, qualified(classname.val,
                                                       fn.functionname)),
                      message)

\* trace(message, function) up to the call of PyLg.write: the string handed
\* to PyLg.write, or the fault raised before
trace_text(cfg, stk, dis, fn, message) ==
    with_classname(cfg, get(stk, dis), fn, message)

\* PyLg.write(string): the fault raised, if any, and the strings written to
\* the log file (written and flushed at once where one context runs; the
\* runs of two contexts take cls.wfile.flush() as a step of its own)
write(wf, string) ==
    IF wf = "None"
    THEN [exc |-> "AttributeError",
          text |-> <<"'", "N", "o", "n", "e", "T", "y", "p", "e", "'", " ", "o", "b", "j", "e", "c", "t", " ", "h", "a", "s", " ", "n", "o", " ", "a", "t", "t", "r", "i", "b", "u", "t", "e", " ", "'", "w", "r", "i", "t", "e", "'">>,
          written |-> <<>>]
    ELSE [exc |-> NoFault, text |-> <<>>, written |-> <<string>>]

\* the end of trace: the text, if there is one, goes to PyLg.write
write_text(wf, text) ==
    IF text.exc # NoFault
    THEN [exc |-> text.exc, text |-> text.val, written |-> <<>>]
    ELSE write(wf, text.val)

\* trace(message, function) as a whole: the fault it raises, if any, and the
\* strings it writes to the log file, as [exc, text, written]
trace(cfg, stk, dis, wf, fn, message) ==
    write_text(wf, trace_text(cfg, stk, dis, fn, message))

\* ----------------------------------------------------------- TraceFunction

\* values passed to and returned by the traced callables: the runtime type
\* and the text "{}".format(value) gives
IntValue(n) == [type |-> "int", text |-> Decimal(n)]

NoneValue == [type |-> "NoneType", text |-> <<"N", "o", "n", "e">>]

\* the list [1, 2], the list [9] and the dict {'a': 1}
Items == [type |-> "list", text |-> <<"[", "1", ",", " ", "2", "]">>, len |-> 2]

OneItem == [type |-> "list", text |-> <<"[", "9", "]">>, len |-> 1]

Table ==
    [type |-> "dict", text |-> <<"{", "'", "a", "'", ":", " ", "1", "}">>,
     len |-> 1]

\* the instance of class A the method grow is called on
ObjectValue == [type |-> "A", text |-> <<"<", "A", " ", "o", "b", "j", "e", "c", "t", ">">>]

\* type(value).__name__
TypeName(value) ==
    CASE value.type = "int" -> <<"i", "n", "t">>
      [] value.type = "NoneType" -> <<"N", "o", "n", "e", "T", "y", "p", "e">>
      [] value.type = "A" -> <<"A">>
      [] value.type = "list" -> <<"l", "i", "s", "t">>
      [] value.type = "dict" -> <<"d", "i", "c", "t">>
      [] value.type = "str" -> <<"s", "t", "r">>

\* type(exception).__name__ of the faults PyLg's own calls raise
ExcName(e) ==
    CASE e = "ValueError" -> <<"V", "a", "l", "u", "e", "E", "r", "r", "o", "r">>
      [] e = "AttributeError" -> <<"A", "t", "t", "r", "i", "b", "u", "t", "e", "E", "r", "r", "o", "r">>
      [] e = "TypeError" -> <<"T", "y", "p", "e", "E", "r", "r", "o", "r">>
      [] e = "KeyError" -> <<"K", "e", "y", "E", "r", "r", "o", "r">>
      [] e = "IndexError" -> <<"I", "n", "d", "e", "x", "E", "r", "r", "o", "r">>
      [] e = "AssertionError" -> <<"A", "s", "s", "e", "r", "t", "i", "o", "n", "E", "r", "r", "o", "r">>

\* the fault object a failed call r of PyLg's own code raises
PyLgFault(r) ==
    [origin |-> "pylg", name |-> ExcName(r.exc), text |-> r.text,
     exception |-> TRUE]

Self == <<"s", "e", "l", "f">>

\* the traced callables of the program, with what init_function records of
\* each: add(a, b) at module level, the method grow(self, x, k=7) of class A
Callables == {"add", "grow"}

TraceFunctionStruct(f) ==
    CASE f = "add" ->
            [functionname |-> <<"a", "d", "d">>,
             varnames |-> <<(<<"a">>), (<<"b">>)>>,
             has_defaults |-> FALSE,
             defaults |-> <<>>,
             filename |-> <<"t", ".", "p", "y">>,
             lineno |-> 4,
             classname |-> ModuleScope]
      [] f = "grow" ->
            [functionname |-> <<"g", "r", "o", "w">>,
             varnames |-> <<Self, (<<"x">>), (<<"k">>)>>,
             has_defaults |-> TRUE,
             defaults |-> (<<"k">> :> IntValue(7)),
             filename |-> <<"t", ".", "p", "y">>,
             lineno |-> 12,
             classname |-> <<"A">>]
      [] f = "join" ->
            [functionname |-> <<"j", "o", "i", "n">>,
             varnames |-> <<(<<"x", "s">>), (<<"y", "s">>)>>,
             has_defaults |-> TRUE,
             defaults |-> (<<"y", "s">> :> OneItem),
             filename |-> <<"t", ".", "p", "y">>,
             lineno |-> 20,
             classname |-> ModuleScope]
      [] f = "table" ->
            [functionname |-> <<"t", "a", "b", "l", "e">>,
             varnames |-> <<(<<"x", "s">>), (<<"y", "s">>)>>,
             has_defaults |-> TRUE,
             defaults |-> (<<"y", "s">> :> Table),
             filename |-> <<"t", ".", "p", "y">>,
             lineno |-> 24,
             classname |-> ModuleScope]

NoInstance == [made |-> FALSE]

\* the options of a TraceFunction made without keyword arguments
default_options(cfg) ==
    [exception_warning |-> cfg.default_exception_warning,
     exception_tb_file |-> cfg.default_exception_tb_file,
     exception_tb_stderr |-> cfg.default_exception_tb_stderr,
     exception_exit |-> cfg.default_exception_exit,
     trace_args |-> cfg.default_trace_args,
     trace_rv |-> cfg.default_trace_rv,
     trace_rv_type |-> cfg.default_trace_rv_type]

\* kwargs.get(option, default) for each option of __init__
options_from(cfg, kwargs) ==
    [o \in DOMAIN default_options(cfg) |->
        IF o \in DOMAIN kwargs THEN kwargs[o] ELSE default_options(cfg)[o]]

\* TraceFunction.get_value_string
get_value_string(cfg, value) ==
    IF value.type = "list" /\ cfg.collapse_lists
    THEN <<"[", " ", "l", "e", "n", "=">> \o Decimal(value.len) \o <<" ", "]">>
    ELSE IF value.type = "dict" /\ cfg.collapse_dicts
    THEN <<"{", " ", "l", "e", "n", "=">> \o Decimal(value.len) \o <<" ", "}">>
    ELSE value.text

RECURSIVE entry_positional(_, _, _, _, _)
\* the "for arg in range(n_args)" loop of trace_entry, from index arg
entry_positional(cfg, fn, args, arg, msg) ==
    IF arg >= Len(args) THEN Ok(msg)
    ELSE IF arg >= Len(fn.varnames)
    THEN RaiseText("IndexError", <<"l", "i", "s", "t", " ", "i", "n", "d", "e", "x", " ", "o", "u", "t", " ", "o", "f", " ", "r", "a", "n", "g", "e">>)
    ELSE IF ~cfg.trace_self /\ fn.varnames[arg + 1] = Self
    THEN entry_positional(cfg, fn, args, arg + 1, msg)
    ELSE entry_positional(cfg, fn, args, arg + 1,
                          msg \o fn.varnames[arg + 1] \o <<" ", "=", " ">>
                          \o get_value_string(cfg, args[arg + 1]) \o <<",", " ">>)

RECURSIVE entry_named(_, _, _, _)
\* the "for name in varnames[n_args:]" loop of trace_entry:
\* kwargs.get(name, self.function.defaults[name]), the default looked up first
entry_named(fn, kwargs, names, msg) ==
    IF names = <<>> THEN Ok(msg)
    ELSE IF ~fn.has_defaults
    THEN RaiseText("TypeError", <<"'", "N", "o", "n", "e", "T", "y", "p", "e", "'", " ", "o", "b", "j", "e", "c", "t", " ", "i", "s", " ", "n", "o", "t", " ", "s", "u", "b", "s", "c", "r", "i", "p", "t", "a", "b", "l", "e">>)
    ELSE IF Head(names) \notin DOMAIN fn.defaults
    THEN RaiseText("KeyError", <<"'">> \o Head(names) \o <<"'">>)
    ELSE entry_named(fn, kwargs, Tail(names),
                     msg \o Head(names) \o <<" ", "=", " ">>
                     \o (IF Head(names) \in DOMAIN kwargs
                         THEN kwargs[Head(names)].text
                         ELSE fn.defaults[Head(names)].text)
                     \o <<",", " ">>)

\* the second loop of trace_entry after the first gave r
entry_rest(fn, args, kwargs, r) ==
    IF r.exc # NoFault THEN r
    ELSE entry_named(fn, kwargs,
                     SubSeq(fn.varnames, Len(args) + 1, Len(fn.varnames)),
                     r.val)

\* msg = msg[:-2]
drop_last_two(r) ==
    IF r.exc # NoFault THEN r ELSE Ok(SubSeq(r.val, 1, Len(r.val) - 2))

\* the message trace_entry builds
entry_message(cfg, opts, fn, args, kwargs) ==
    IF args = <<>> /\ DOMAIN kwargs = {} THEN Ok(<<"-", ">", " ", "E", "N", "T", "R", "Y">>)
    ELSE IF opts.trace_args
    THEN drop_last_two(
             entry_rest(fn, args, kwargs,
                        entry_positional(cfg, fn, args, 0, <<"-", ">", " ", "E", "N", "T", "R", "Y", ":", " ">>)))
    ELSE Ok(<<"-", ">", " ", "E", "N", "T", "R", "Y", ":", " ", "-", "-", "-">>)

\* the message of trace_exit with the none value shown like any other
exit_message_with_none(cfg, opts, rv) ==
    <<"<", "-", " ", "E", "X", "I", "T", " ", ":", " ">>
    \o (IF opts.trace_rv THEN get_value_string(cfg, rv) ELSE <<"-", "-", "-">>)
    \o (IF opts.trace_rv_type
        THEN <<" ", "(", "t", "y", "p", "e", ":", " ">> \o TypeName(rv) \o <<")">>
        ELSE <<>>)

\* the message trace_exit builds for the return value rv
exit_message(cfg, opts, rv) ==
    <<"<", "-", " ", "E", "X", "I", "T", " ">>
    \o (IF rv # NoneValue
        THEN <<":", " ">>
             \o (IF opts.trace_rv THEN get_value_string(cfg, rv) ELSE <<"-", "-", "-">>)
             \o (IF opts.trace_rv_type
                 THEN <<" ", "(", "t", "y", "p", "e", ":", " ">> \o TypeName(rv) \o <<")">> ELSE <<>>)
        ELSE <<>>)

\* one entry of a traceback: the file, the line and the function of the
\* frame and, under them, the source line stripped and indented by four;
\* the interpreters that have inspect.getargspec, which init_function
\* calls, print no column marks under the source line
frame(file, line, name, source) ==
    <<" ", " ", "F", "i", "l", "e", " ", "\"">> \o file \o <<"\"", ",", " ", "l", "i", "n", "e", " ">> \o Decimal(line)
    \o <<",", " ", "i", "n", " ">> \o name \o <<"\n">> \o Spaces(4) \o source \o <<"\n">>

\* the entry of a frame of pylg.py stopped at the line; the directory the
\* package is installed in is left out of the path
pylg_frame(line, name) ==
    frame(<<"p", "y", "l", "g", "/", "p", "y", "l", "g", ".", "p", "y">>, line, name,
          CASE line = 137 -> <<"c", "l", "s", ".", "w", "f", "i", "l", "e", ".", "w", "r", "i", "t", "e", "(", "s", "t", "r", "i", "n", "g", ")">>
            [] line = 293 -> <<"s", "e", "l", "f", ".", "t", "r", "a", "c", "e", "_", "e", "n", "t", "r", "y", "(", "*", "a", "r", "g", "s", ",", " ", "*", "*", "k", "w", "a", "r", "g", "s", ")">>
            [] line = 296 -> <<"r", "v", " ", "=", " ", "s", "e", "l", "f", ".", "f", "u", "n", "c", "t", "i", "o", "n", ".", "f", "u", "n", "c", "t", "i", "o", "n", "(", "*", "a", "r", "g", "s", ",", " ", "*", "*", "k", "w", "a", "r", "g", "s", ")">>
            [] line = 298 -> <<"s", "e", "l", "f", ".", "t", "r", "a", "c", "e", "_", "e", "x", "c", "e", "p", "t", "i", "o", "n", "(", "e", "x", "c", ")">>
            [] line = 308 -> <<"s", "e", "l", "f", ".", "t", "r", "a", "c", "e", "_", "e", "x", "i", "t", "(", "r", "v", ")">>
            [] line = 370 -> <<"s", "e", "l", "f", ".", "f", "u", "n", "c", "t", "i", "o", "n", ".", "v", "a", "r", "n", "a", "m", "e", "s", "[", "a", "r", "g", "]", " ", "=", "=", " ", "\"", "s", "e", "l", "f", "\"", ":">>
            [] line = 380 -> <<"n", "a", "m", "e", ",", " ", "k", "w", "a", "r", "g", "s", ".", "g", "e", "t", "(", "n", "a", "m", "e", ",", " ", "s", "e", "l", "f", ".", "f", "u", "n", "c", "t", "i", "o", "n", ".", "d", "e", "f", "a", "u", "l", "t", "s", "[", "n", "a", "m", "e", "]", ")">>
            [] line \in {388, 411, 440} -> <<"t", "r", "a", "c", "e", "(", "m", "s", "g", ",", " ", "f", "u", "n", "c", "t", "i", "o", "n", "=", "s", "e", "l", "f", ".", "f", "u", "n", "c", "t", "i", "o", "n", ")">>
            [] line = 493 -> <<"c", "l", "a", "s", "s", "n", "a", "m", "e", " ", "=", " ", "C", "l", "a", "s", "s", "N", "a", "m", "e", "S", "t", "a", "c", "k", ".", "g", "e", "t", "(", ")">>
            [] line = 502 -> <<"i", "f", " ", "P", "y", "L", "g", ".", "t", "r", "a", "c", "e", "_", "t", "i", "m", "e", ":">>
            [] line = 541 -> <<"w", "r", "a", "p", "p", "e", "d", " ", "=", " ", "t", "e", "x", "t", "w", "r", "a", "p", ".", "w", "r", "a", "p", "(", "l", "i", "n", "e", ",", " ", "P", "y", "L", "g", ".", "m", "e", "s", "s", "a", "g", "e", "_", "w", "i", "d", "t", "h", ")">>
            [] line = 586 -> <<"a", "s", "s", "e", "r", "t", " ", "w", "r", "a", "p", "p", "e", "d">>
            [] line = 612 -> <<"P", "y", "L", "g", ".", "w", "r", "i", "t", "e", "(", "m", "s", "g", ")">>)

\* the entries of trace and of what it called for the fault r it raised:
\* ClassNameStack.get() at 493, the first setting read at 502,
\* textwrap.wrap at 541 with the library's own entries, the assertion at
\* 586, PyLg.write at 612
trace_frames(r) ==
    IF r.exc = "AttributeError"
    THEN IF r.text = FaultText("AttributeError")
         THEN pylg_frame(493, <<"t", "r", "a", "c", "e">>)
         ELSE IF Head(r.text) = "'"
         THEN pylg_frame(612, <<"t", "r", "a", "c", "e">>) \o pylg_frame(137, <<"w", "r", "i", "t", "e">>)
         ELSE pylg_frame(502, <<"t", "r", "a", "c", "e">>)
    ELSE IF r.exc = "ValueError"
    THEN pylg_frame(541, <<"t", "r", "a", "c", "e">>)
         \o frame(<<"t", "e", "x", "t", "w", "r", "a", "p", ".", "p", "y">>, 384, <<"w", "r", "a", "p">>, <<"r", "e", "t", "u", "r", "n", " ", "w", ".", "w", "r", "a", "p", "(", "t", "e", "x", "t", ")">>)
         \o frame(<<"t", "e", "x", "t", "w", "r", "a", "p", ".", "p", "y">>, 359, <<"w", "r", "a", "p">>, <<"r", "e", "t", "u", "r", "n", " ", "s", "e", "l", "f", ".", "_", "w", "r", "a", "p", "_", "c", "h", "u", "n", "k", "s", "(", "c", "h", "u", "n", "k", "s", ")">>)
         \o frame(<<"t", "e", "x", "t", "w", "r", "a", "p", ".", "p", "y">>, 253, <<"_", "w", "r", "a", "p", "_", "c", "h", "u", "n", "k", "s">>, <<"r", "a", "i", "s", "e", " ", "V", "a", "l", "u", "e", "E", "r", "r", "o", "r", "(", "\"", "i", "n", "v", "a", "l", "i", "d", " ", "w", "i", "d", "t", "h", " ", "%", "r", " ", "(", "m", "u", "s", "t", " ", "b", "e", " ", ">", " ", "0", ")", "\"", " ", "%", " ", "s", "e", "l", "f", ".", "w", "i", "d", "t", "h", ")">>)
    ELSE pylg_frame(586, <<"t", "r", "a", "c", "e">>)

\* the entries under the frame of the caller when __call__ raised the fault
\* r of PyLg's own code, in trace_entry, trace_exit or trace_exception
pylg_traceback(site, r) ==
    IF site = "entry"
    THEN pylg_frame(293, <<"_", "_", "c", "a", "l", "l", "_", "_">>)
         \o (IF r.exc \in {"TypeError", "KeyError"}
             THEN pylg_frame(380, <<"t", "r", "a", "c", "e", "_", "e", "n", "t", "r", "y">>)
             ELSE IF r.exc = "IndexError"
             THEN pylg_frame(370, <<"t", "r", "a", "c", "e", "_", "e", "n", "t", "r", "y">>)
             ELSE pylg_frame(388, <<"t", "r", "a", "c", "e", "_", "e", "n", "t", "r", "y">>) \o trace_frames(r))
    ELSE IF site = "exit"
    THEN pylg_frame(308, <<"_", "_", "c", "a", "l", "l", "_", "_">>) \o pylg_frame(411, <<"t", "r", "a", "c", "e", "_", "e", "x", "i", "t">>)
         \o trace_frames(r)
    ELSE pylg_frame(298, <<"_", "_", "c", "a", "l", "l", "_", "_">>) \o pylg_frame(440, <<"t", "r", "a", "c", "e", "_", "e", "x", "c", "e", "p", "t", "i", "o", "n">>)
         \o trace_frames(r)

\* the entries from __call__ down for a fault that left the callable fn:
\* line 296, the line of fn that raised it (no entries below) or that made
\* the call which raised it, and the entries below; the callables of the
\* program raise in "raise e", two lines under the line init_function
\* recorded, and make their calls in "rv = f()", four lines further down
call_traceback(fn, below) ==
    pylg_frame(296, <<"_", "_", "c", "a", "l", "l", "_", "_">>)
    \o frame(fn.filename, fn.lineno + (IF below = <<>> THEN 2 ELSE 6),
             fn.functionname,
             IF below = <<>> THEN <<"r", "a", "i", "s", "e", " ", "e">> ELSE <<"r", "v", " ", "=", " ", "f", "(", ")">>)
    \o below

\* traceback.format_exc() in the except clause of __call__ for the fault
\* the callable fn raised; tb has the entries below fn's and the text of
\* the fault that was being handled when this one was raised
format_exc(fn, fault, tb) ==
    tb.context
    \o <<"T", "r", "a", "c", "e", "b", "a", "c", "k", " ", "(", "m", "o", "s", "t", " ", "r", "e", "c", "e", "n", "t", " ", "c", "a", "l", "l", " ", "l", "a", "s", "t", ")", ":", "\n">>
    \o call_traceback(fn, tb.frames) \o fault.name
    \o (IF fault.text # <<>> THEN <<":", " ">> \o fault.text ELSE <<>>) \o <<"\n">>

\* trace_exception leaving out the text of the fault
exception_message_without_text(opts, fn, fault, tb) ==
    <<"<", "-", " ", "E", "X", "I", "T", " ", ":", " ">> \o fault.name
    \o <<" ", "R", "A", "I", "S", "E", "D">>

\* the message trace_exception builds for the fault
exception_message(opts, fn, fault, tb) ==
    <<"<", "-", " ", "E", "X", "I", "T", " ", ":", " ">> \o fault.name \o <<" ", "R", "A", "I", "S", "E", "D">>
    \o (IF fault.text # <<>> THEN <<" ", "-", " ">> \o fault.text ELSE <<>>)
    \o (IF opts.exception_tb_file
        THEN <<"\n", "-", "-", "-", " ", "E", "X", "C", "E", "P", "T", "I", "O", "N", " ", "-", "-", "-", "\n">> \o format_exc(fn, fault, tb) \o <<"-", "-", "-", "-", "-", "-", "-", "-", "-", "-", "-", "-", "-", "-", "-", "-", "-">>
        ELSE <<>>)

\* trace(msg, function=self.function) for a message that may have failed to
\* build
trace_built(cfg, stk, dis, wf, fn, m) ==
    IF m.exc # NoFault THEN [exc |-> m.exc, text |-> m.val, written |-> <<>>]
    ELSE trace(cfg, stk, dis, wf, fn, m.val)

\* TraceFunction.trace_entry
trace_entry(cfg, stk, dis, wf, opts, fn, args, kwargs) ==
    trace_built(cfg, stk, dis, wf, fn, entry_message(cfg, opts, fn, args, kwargs))

\* TraceFunction.trace_exit
trace_exit(cfg, stk, dis, wf, opts, fn, rv) ==
    trace(cfg, stk, dis, wf, fn, exit_message(cfg, opts, rv))

\* TraceFunction.trace_exception
trace_exception(cfg, stk, dis, wf, opts, fn, fault, tb) ==
    trace(cfg, stk, dis, wf, fn, exception_message(opts, fn, fault, tb))

\* whether the callable's signature takes the call
Accepts(fn, args, kwargs) ==
    /\ Len(args) <= Len(fn.varnames)
    /\ \A name \in DOMAIN kwargs :
          \E i \in (Len(args) + 1)..Len(fn.varnames) : fn.varnames[i] = name
    /\ \A i \in (Len(args) + 1)..Len(fn.varnames) :
          \/ fn.varnames[i] \in DOMAIN kwargs
          \/ fn.has_defaults /\ fn.varnames[i] \in DOMAIN fn.defaults

\* ----------------------------------------------------------- configuration

\* pylg.settings.load: the settings that pass validation.  The loader is not
\* part of the sources; this is the option set of the specification, with
\* the names PyLg.configure reads.
Settings(cols, resolution, message, width, wrapping, mark) ==
    [configured |-> TRUE,
     default_exception_warning |-> FALSE,
     default_exception_tb_file |-> FALSE,
     default_exception_tb_stderr |-> FALSE,
     default_exception_exit |-> FALSE,
     trace_time |-> cols[1],
     trace_filename |-> cols[2],
     filename_column_width |-> FilenameWidth,
     trace_lineno |-> cols[3],
     lineno_width |-> LinenoWidth,
     trace_function |-> cols[4],
     function_column_width |-> FunctionWidth,
     class_name_resolution |-> resolution,
     trace_message |-> message,
     message_width |-> width,
     message_wrap |-> wrapping,
     message_mark_truncation |-> mark,
     trace_self |-> FALSE,
     collapse_lists |-> FALSE,
     collapse_dicts |-> FALSE,
     default_trace_args |-> TRUE,
     default_trace_rv |-> TRUE,
     default_trace_rv_type |-> FALSE]

\* which of the time, file name, line number and function columns are on
ColumnChoices ==
    {<<FALSE, FALSE, FALSE, FALSE>>, <<TRUE, TRUE, TRUE, TRUE>>,
     <<FALSE, FALSE, TRUE, FALSE>>, <<FALSE, TRUE, FALSE, TRUE>>}

FmtSettings ==
    {Settings(cols, resolution, message, width, wrapping, mark) :
        cols \in ColumnChoices, resolution \in BOOLEAN, message \in BOOLEAN,
        width \in 0..MaxWidth, wrapping \in BOOLEAN, mark \in BOOLEAN}

\* every text of at most n characters
Texts(n) == UNION {[1..k -> Chars] : k \in 0..n}

\* the frame trace() finds when it is called directly: inspect.stack()[1]
CallerFrame ==
    [filename |-> <<"t", ".", "p", "y">>, lineno |-> 7,
     functionname |-> <<"m", "a", "i", "n">>]

\* ----------------------------------------------------------------- actions

Init ==
    /\ stack = <<>>
    /\ disabled = FALSE
    /\ settings = NoSettings
    /\ wfile = "None"
    /\ log = <<>>
    /\ flushed = 0
    /\ released = <<>>
    /\ last = NoCall
    /\ pushes = 0
    /\ pops = 0
    /\ emptypops = 0
    /\ tf = [f \in Callables |-> NoInstance]
    /\ frames = <<>>
    /\ exited = FALSE
    /\ calls = 0

\* PyLg.configure(): load the settings, disable the stack if class name
\* resolution is off, open the log file, which empties it, and write the
\* header (not flushed); the assignment to wfile releases the file object
\* that was open, and what that object had not flushed (its header) goes to
\* the emptied file, where the next flush of the new object overwrites it
configure(cfg) ==
    /\ settings' = cfg
    /\ disabled' = (disabled \/ ~cfg.class_name_resolution)
    /\ wfile' = "open"
    /\ log' = <<Header>>
    /\ flushed' = 0
    /\ released' = IF wfile = "open" THEN SubSeq(log, flushed + 1, Len(log))
                   ELSE <<>>
    /\ last' = [op |-> "configure", exc |-> NoFault]
    /\ UNCHANGED <<stack, counters, calling>>

\* a direct call trace(message) from the program
traced(message, r) ==
    /\ log' = log \o r.written
    /\ flushed' = IF r.written # <<>> THEN Len(log') ELSE flushed
    /\ released' = released
    /\ last' = [op |-> "trace", message |-> message, exc |-> r.exc,
                written |-> r.written]
    /\ UNCHANGED <<stack, disabled, settings, wfile, counters, calling>>

trace_call(message) ==
    traced(message,
           trace(settings, stack, disabled, wfile, CallerFrame, message))

\* The formatter on its own: one configuration, then one message traced.
FmtConfigure ==
    /\ last.op = "none"
    /\ \E cfg \in FmtSettings : configure(cfg)

FmtTrace ==
    /\ last.op = "configure"
    /\ \E message \in Texts(MaxLen) : trace_call(message)

FmtNext == FmtConfigure \/ FmtTrace

SpecFmt == Init /\ [][FmtNext]_vars

\* The formatter in truncate mode with the truncation mark: one
\* configuration, then one message of up to TruncLen characters traced.
TruncSettings ==
    {Settings(cols, FALSE, TRUE, width, FALSE, TRUE) :
        cols \in ColumnChoices, width \in 1..MaxWidth}

TruncConfigure ==
    /\ last.op = "none"
    /\ \E cfg \in TruncSettings : configure(cfg)

TruncTrace ==
    /\ last.op = "configure"
    /\ \E message \in Texts(TruncLen) : trace_call(message)

TruncNext == TruncConfigure \/ TruncTrace

SpecTrunc == Init /\ [][TruncNext]_vars

\* The log file on its own: the program calls configure, trace, PyLg.write
\* and PyLg.close in any order.
SinkSettings ==
    {Settings(cols, FALSE, message, MaxWidth, TRUE, TRUE) :
        cols \in {<<FALSE, FALSE, FALSE, FALSE>>, <<FALSE, FALSE, TRUE, FALSE>>},
        message \in BOOLEAN}

\* a direct call PyLg.write(string) from the program
write_call(string) ==
    /\ log' = log \o write(wfile, string).written
    /\ flushed' = IF write(wfile, string).written # <<>> THEN Len(log')
                  ELSE flushed
    /\ released' = released
    /\ last' = [op |-> "write", string |-> string,
                exc |-> write(wfile, string).exc,
                written |-> write(wfile, string).written]
    /\ UNCHANGED <<stack, disabled, settings, wfile, counters, calling>>

\* PyLg.close(): the file is closed, which flushes it, or a warning is given
close ==
    /\ wfile' = "None"
    /\ flushed' = IF wfile # "None" THEN Len(log) ELSE flushed
    /\ released' = released
    /\ last' = [op |-> "close", exc |-> NoFault, warned |-> (wfile = "None")]
    /\ UNCHANGED <<stack, disabled, settings, log, counters, calling>>

SinkConfigure == \E cfg \in SinkSettings : configure(cfg)

SinkTrace ==
    /\ Len(log) < MaxRecords
    /\ \E message \in Texts(SinkLen) : trace_call(message)

SinkWrite ==
    /\ Len(log) < MaxRecords
    /\ \E string \in Texts(SinkLen) : write_call(string)

SinkClose == close

SinkNext == SinkConfigure \/ SinkTrace \/ SinkWrite \/ SinkClose

SpecSink == Init /\ [][SinkNext]_vars

\* The ClassNameStack on its own: the program calls insert, pop, peek and
\* get directly, and configure, which disables the stack when class name
\* resolution is off.
StackInsert ==
    /\ pushes < MaxPushes
    /\ \E classname \in {<<"A">>, <<"B">>} :
          /\ stack' = insert(stack, disabled, classname)
          /\ last' = [op |-> "insert", before |-> stack, rv |-> None,
                      exc |-> NoFault]
    /\ pushes' = pushes + 1
    /\ UNCHANGED <<disabled, settings, wfile, log, flushed, released, pops, emptypops, calling>>

StackPop ==
    /\ pops < MaxPops
    /\ stack' = pop(stack, disabled).stack
    /\ last' = [op |-> "pop", before |-> stack, rv |-> pop(stack, disabled).rv,
                exc |-> NoFault]
    /\ pops' = pops + 1
    /\ emptypops' = IF stack = <<>> THEN emptypops + 1 ELSE emptypops
    /\ UNCHANGED <<disabled, settings, wfile, log, flushed, released, pushes, calling>>

StackPeek ==
    /\ last' = [op |-> "peek", before |-> stack, rv |-> peek(stack, disabled),
                exc |-> NoFault]
    /\ UNCHANGED <<stack, disabled, settings, wfile, log, flushed, released, counters, calling>>

StackGet ==
    /\ last' = [op |-> "get", before |-> stack, rv |-> get(stack, disabled).val,
                exc |-> get(stack, disabled).exc]
    /\ UNCHANGED <<stack, disabled, settings, wfile, log, flushed, released, counters, calling>>

StackConfigure ==
    /\ ~settings.configured
    /\ \E resolution \in BOOLEAN :
          configure(Settings(<<FALSE, FALSE, FALSE, TRUE>>, resolution, TRUE,
                             MaxWidth, TRUE, TRUE))

\* ClassNameStack.disable() called by the program itself: insert, pop and
\* get are replaced, the stack is left as it is and nothing is configured
StackDisable ==
    /\ disabled' = TRUE
    /\ last' = [op |-> "disable", before |-> stack, rv |-> None,
                exc |-> NoFault]
    /\ UNCHANGED <<stack, settings, wfile, log, flushed, released, counters, calling>>

StackNext ==
    \/ StackInsert
    \/ StackPop
    \/ StackPeek
    \/ StackGet
    \/ StackConfigure
    \/ StackDisable

SpecStack == Init /\ [][StackNext]_vars

\* The instrumented program: it configures PyLg, decorates its callables,
\* and calls them, one inside the other up to MaxDepth; a callable returns a
\* value or raises a fault, and a caller may catch the fault of a call or let
\* it propagate.
\* trace_message, message_width and message_wrap of the runs: the defaults
\* with and without the message column, and a narrow and a wide line
RunSettings ==
    {Settings(<<FALSE, FALSE, FALSE, TRUE>>, resolution, format[1], format[2],
              format[3], TRUE) :
        resolution \in BOOLEAN,
        format \in {<<TRUE, 0, TRUE>>, <<FALSE, 0, TRUE>>,
                    <<TRUE, NarrowWidth, TRUE>>, <<TRUE, NarrowWidth, FALSE>>,
                    <<TRUE, RunWidth, TRUE>>}}

\* the keyword arguments of TraceFunction(**kwargs)
OptionChoices ==
    {[exception_exit |-> TRUE], [trace_args |-> FALSE],
     [exception_tb_file |-> TRUE], [trace_rv |-> FALSE, trace_rv_type |-> TRUE]}

\* the calls the program makes, each one its callable accepts
CallShapes(f) ==
    CASE f = "add" ->
            {[args |-> <<IntValue(2), IntValue(3)>>, kwargs |-> <<>>],
             [args |-> <<IntValue(2)>>, kwargs |-> (<<"b">> :> IntValue(3))],
             [args |-> <<>>,
              kwargs |-> (<<"a">> :> IntValue(2)) @@ (<<"b">> :> IntValue(3))]}
      [] f = "grow" ->
            {[args |-> <<ObjectValue, IntValue(3)>>, kwargs |-> <<>>],
             [args |-> <<ObjectValue, IntValue(3), IntValue(4)>>, kwargs |-> <<>>],
             [args |-> <<ObjectValue, IntValue(3)>>,
              kwargs |-> (<<"k">> :> IntValue(4))],
             [args |-> <<ObjectValue>>, kwargs |-> (<<"x">> :> IntValue(3))]}

ReturnValues == {IntValue(5), NoneValue}

\* the faults the callables raise; exception tells whether the fault's type
\* derives from Exception
BodyFaults ==
    {[origin |-> "callable", name |-> <<"V", "a", "l", "u", "e", "E", "r", "r", "o", "r">>, text |-> <<"b", "o", "o", "m">>, exception |-> TRUE],
     [origin |-> "callable", name |-> <<"R", "u", "n", "t", "i", "m", "e", "E", "r", "r", "o", "r">>, text |-> <<>>, exception |-> TRUE],
     [origin |-> "callable", name |-> <<"V", "a", "l", "u", "e", "E", "r", "r", "o", "r">>, text |-> <<"a", "\n", "b">>, exception |-> TRUE],
     [origin |-> "callable", name |-> <<"V", "a", "l", "u", "e", "E", "r", "r", "o", "r">>, text |-> <<"b", " ">>, exception |-> TRUE],
     [origin |-> "callable", name |-> <<"K", "e", "y", "b", "o", "a", "r", "d", "I", "n", "t", "e", "r", "r", "u", "p", "t">>, text |-> <<>>,
      exception |-> FALSE]}

\* PyLg.configure(), once, before the calls
Configure ==
    /\ ~settings.configured /\ ~exited /\ frames = <<>>
    /\ \E cfg \in RunSettings : configure(cfg)

\* TraceFunction(function): __init__ reads the defaults PyLg.configure set,
\* then init_function binds the callable
Decorate(f) ==
    /\ ~exited /\ frames = <<>> /\ ~tf[f].made
    /\ IF settings.configured
       THEN /\ tf' = [tf EXCEPT ![f] = [made |-> TRUE, bound |-> TRUE,
                                        opts |-> default_options(settings)]]
            /\ last' = [op |-> "decorate", exc |-> NoFault]
       ELSE /\ tf' = tf
            /\ last' = [op |-> "decorate", exc |-> "AttributeError"]
    /\ UNCHANGED <<stack, disabled, settings, wfile, log, flushed, released, counters,
                   frames, exited, calls>>

\* TraceFunction(**kwargs): an instance with its options and no callable
DecorateWith(f, kwargs) ==
    /\ ~exited /\ frames = <<>> /\ ~tf[f].made
    /\ settings.configured
    /\ tf' = [tf EXCEPT ![f] = [made |-> TRUE, bound |-> FALSE,
                                opts |-> options_from(settings, kwargs)]]
    /\ last' = [op |-> "decorate", exc |-> NoFault]
    /\ UNCHANGED <<stack, disabled, settings, wfile, log, flushed, released, counters,
                   frames, exited, calls>>

\* __call__ of an instance without a callable: init_function(function),
\* return self
Bind(f) ==
    /\ ~exited /\ frames = <<>>
    /\ tf[f].made /\ ~tf[f].bound
    /\ tf' = [tf EXCEPT ![f].bound = TRUE]
    /\ last' = [op |-> "bind", exc |-> NoFault]
    /\ UNCHANGED <<stack, disabled, settings, wfile, log, flushed, released, counters,
                   frames, exited, calls>>

\* the fault reaches the invocation that made the call, if there is one,
\* with the entries of its traceback under the frame of that invocation
deliver(frs, fault, tb) ==
    IF frs = <<>> THEN frs
    ELSE [frs EXCEPT ![Len(frs)].pending = <<fault>>, ![Len(frs)].below = tb]

\* the strings of a call of trace put before what the log file holds
logged_in_front(r) ==
    /\ log' = r.written \o log
    /\ flushed' = IF r.written # <<>> THEN Len(log') ELSE flushed
    /\ released' = released

\* what the log file holds after a call of trace gave r
logged(r) ==
    /\ log' = log \o r.written
    /\ flushed' = IF r.written # <<>> THEN Len(log') ELSE flushed
    /\ released' = released

\* an invocation has ended: what its caller and the stack saw of it
ended(fr, invoked, body, outcome, result, stk, exit_written) ==
    [op |-> "call", f |-> fr.f, args |-> fr.args, kwargs |-> fr.kwargs,
     force_exit |-> tf[fr.f].opts.exception_exit,
     invoked |-> invoked, body |-> body, outcome |-> outcome,
     result |-> result, depth_before |-> fr.depth_before,
     depth_after |-> Len(stk), entry_written |-> fr.written,
     exit_written |-> exit_written,
     entry_at |-> fr.entry_at, exit_at |-> Len(log) + Len(exit_written),
     inner |-> fr.inner]

\* the invocation that made the call keeps where in the log the records of
\* the call that returned to it are
noted(frs, fr) ==
    IF frs = <<>> THEN frs
    ELSE [frs EXCEPT ![Len(frs)].inner =
              Append(@, [f |-> fr.f, entry_at |-> fr.entry_at,
                         exit_at |-> Len(log) + 1])]

\* __call__ after ClassNameStack.insert left stk and trace_entry gave r: the
\* callable starts, or the fault of trace_entry goes to the caller
entered(fr, stk, r) ==
    /\ stack' = stk
    /\ logged(r)
    /\ calls' = calls + 1
    /\ IF r.exc = NoFault
       THEN /\ frames' = Append(frames, [fr EXCEPT !.written = r.written])
            /\ last' = [op |-> "enter", f |-> fr.f]
       ELSE /\ frames' = deliver(frames, PyLgFault(r),
                                     [context |-> <<>>,
                                      frames |-> pylg_traceback("entry", r)])
            /\ last' = ended(fr, 0, <<>>, "raised", PyLgFault(r), stk, <<>>)
    /\ UNCHANGED <<disabled, settings, wfile, counters, tf, exited>>

\* a call of the bound TraceFunction of f, up to the start of the callable;
\* a frame keeps the place in the log of its ENTRY record
invoke(f, c) ==
    /\ tf[f].made /\ tf[f].bound
    /\ frames # <<>> => Last(frames).pending = <<>>
    /\ Accepts(TraceFunctionStruct(f), c.args, c.kwargs)
    /\ entered([f |-> f, args |-> c.args, kwargs |-> c.kwargs,
                depth_before |-> Len(stack), pending |-> <<>>,
                below |-> [context |-> <<>>, frames |-> <<>>],
                written |-> <<>>, entry_at |-> Len(log) + 1, inner |-> <<>>],
               insert(stack, disabled, TraceFunctionStruct(f).classname),
               trace_entry(settings, insert(stack, disabled,
                                            TraceFunctionStruct(f).classname),
                           disabled, wfile, tf[f].opts, TraceFunctionStruct(f),
                           c.args, c.kwargs))

Call(f, c) ==
    /\ ~exited /\ calls < MaxCalls /\ Len(frames) < MaxDepth
    /\ invoke(f, c)

\* __call__ after the callable returned rv and trace_exit gave r: pop and
\* return rv, or the fault of trace_exit goes to the caller
returned(fr, rv, r) ==
    /\ logged(r)
    /\ IF r.exc = NoFault
       THEN /\ stack' = pop(stack, disabled).stack
            /\ frames' = noted(Front(frames), fr)
            /\ last' = ended(fr, 1, <<[kind |-> "returned", result |-> rv]>>,
                             "returned", rv, pop(stack, disabled).stack,
                             r.written)
       ELSE /\ stack' = stack
            /\ frames' = deliver(Front(frames), PyLgFault(r),
                                 [context |-> <<>>,
                                  frames |-> pylg_traceback("exit", r)])
            /\ last' = ended(fr, 1, <<[kind |-> "returned", result |-> rv]>>,
                             "raised", PyLgFault(r), stack, r.written)
    /\ UNCHANGED <<disabled, settings, wfile, counters, tf, exited, calls>>

\* the running callable returns rv
Return(rv) ==
    /\ ~exited /\ frames # <<>> /\ Last(frames).pending = <<>>
    /\ returned(Last(frames), rv,
                trace_exit(settings, stack, disabled, wfile,
                           tf[Last(frames).f].opts,
                           TraceFunctionStruct(Last(frames).f), rv))

\* the except clause without the forced exit: the fault is always re-raised
raised_without_exit(fr, fault, r) ==
    /\ logged(r)
    /\ frames' = deliver(Front(frames),
                         IF r.exc # NoFault THEN PyLgFault(r) ELSE fault,
                         IF r.exc # NoFault
                         THEN [context |-> format_exc(TraceFunctionStruct(fr.f), fault,
                                                      fr.below)
                                              \o <<"\n", "D", "u", "r", "i", "n", "g", " ", "h", "a", "n", "d", "l", "i", "n", "g", " ", "o", "f", " ", "t", "h", "e", " ", "a", "b", "o", "v", "e", " ", "e", "x", "c", "e", "p", "t", "i", "o", "n", ",", " ", "a", "n", "o", "t", "h", "e", "r", " ", "e", "x", "c", "e", "p", "t", "i", "o", "n", " ", "o", "c", "c", "u", "r", "r", "e", "d", ":", "\n", "\n">>,
                                   frames |-> pylg_traceback("exception", r)]
                         ELSE [context |-> fr.below.context,
                                  frames |-> call_traceback(
                                      TraceFunctionStruct(fr.f),
                                      fr.below.frames)])
    /\ exited' = exited
    /\ last' = ended(fr, 1, <<[kind |-> "raised", result |-> fault]>>,
                     "raised", IF r.exc # NoFault THEN PyLgFault(r) ELSE fault,
                     stack, r.written)
    /\ UNCHANGED <<stack, disabled, settings, wfile, counters, tf, calls>>

\* __call__ after the callable raised fault and trace_exception gave r: the
\* fault of trace_exception goes to the caller, or the process exits, or the
\* fault is re-raised; nothing is popped
raised(fr, fault, r) ==
    /\ logged(r)
    /\ IF r.exc # NoFault
       THEN /\ frames' = deliver(Front(frames), PyLgFault(r),
                                 [context |-> format_exc(TraceFunctionStruct(fr.f), fault,
                                                      fr.below)
                                              \o <<"\n", "D", "u", "r", "i", "n", "g", " ", "h", "a", "n", "d", "l", "i", "n", "g", " ", "o", "f", " ", "t", "h", "e", " ", "a", "b", "o", "v", "e", " ", "e", "x", "c", "e", "p", "t", "i", "o", "n", ",", " ", "a", "n", "o", "t", "h", "e", "r", " ", "e", "x", "c", "e", "p", "t", "i", "o", "n", " ", "o", "c", "c", "u", "r", "r", "e", "d", ":", "\n", "\n">>,
                                   frames |-> pylg_traceback("exception", r)])
            /\ exited' = exited
            /\ last' = ended(fr, 1, <<[kind |-> "raised", result |-> fault]>>,
                             "raised", PyLgFault(r), stack, r.written)
       ELSE IF tf[fr.f].opts.exception_exit
       THEN /\ frames' = frames
            /\ exited' = TRUE
            /\ last' = ended(fr, 1, <<[kind |-> "raised", result |-> fault]>>,
                             "exit", fault, stack, r.written)
       ELSE /\ frames' = deliver(Front(frames), fault,
                                 [context |-> fr.below.context,
                                  frames |-> call_traceback(
                                      TraceFunctionStruct(fr.f),
                                      fr.below.frames)])
            /\ exited' = exited
            /\ last' = ended(fr, 1, <<[kind |-> "raised", result |-> fault]>>,
                             "raised", fault, stack, r.written)
    /\ UNCHANGED <<stack, disabled, settings, wfile, counters, tf, calls>>

\* __call__ when the callable raised a fault that "except Exception" does
\* not take: it passes to the caller as it is
passed(fr, fault) ==
    /\ frames' = deliver(Front(frames), fault,
                         [context |-> fr.below.context,
                                  frames |-> call_traceback(
                                      TraceFunctionStruct(fr.f),
                                      fr.below.frames)])
    /\ last' = ended(fr, 1, <<[kind |-> "raised", result |-> fault]>>,
                     "raised", fault, stack, <<>>)
    /\ UNCHANGED <<stack, disabled, settings, wfile, log, flushed, released, counters,
                   tf, exited, calls>>

\* the fault leaves the running callable
leaves(fault) ==
    IF fault.exception
    THEN raised(Last(frames), fault,
                trace_exception(settings, stack, disabled, wfile,
                                tf[Last(frames).f].opts,
                                TraceFunctionStruct(Last(frames).f), fault,
                                Last(frames).below))
    ELSE passed(Last(frames), fault)

\* the running callable raises a fault of its own
Raises ==
    /\ ~exited /\ frames # <<>> /\ Last(frames).pending = <<>>
    /\ \E fault \in BodyFaults : leaves(fault)

\* the running callable does not catch the fault of the call it made
Propagate ==
    /\ ~exited /\ frames # <<>> /\ Last(frames).pending # <<>>
    /\ leaves(Last(frames).pending[1])

\* the running callable catches the fault of the call it made and goes on
Catch ==
    /\ ~exited /\ frames # <<>> /\ Last(frames).pending # <<>>
    /\ frames' = [frames EXCEPT ![Len(frames)].pending = <<>>,
                                ![Len(frames)].below =
                                    [context |-> <<>>, frames |-> <<>>]]
    /\ last' = [op |-> "catch", f |-> Last(frames).f]
    /\ UNCHANGED <<stack, disabled, settings, wfile, log, flushed, released, counters,
                   tf, exited, calls>>

Next ==
    \/ Configure
    \/ \E f \in Callables : Decorate(f)
    \/ \E f \in Callables : \E kwargs \in OptionChoices : DecorateWith(f, kwargs)
    \/ \E f \in Callables : Bind(f)
    \/ \E f \in Callables : \E c \in CallShapes(f) : Call(f, c)
    \/ \E rv \in ReturnValues : Return(rv)
    \/ Raises
    \/ Propagate
    \/ Catch

Spec == Init /\ [][Next]_vars

\* One invocation at a time: the program configures PyLg, decorates its
\* callables with or without options and calls them, not one inside the
\* other; the faults include one with an indented second line.
\* a text whose second line is message_width blanks and a longer word, for
\* the narrow width of the runs
IndentedText ==
    <<"a", "\n">> \o Spaces(NarrowWidth) \o [i \in 1..(NarrowWidth + 1) |-> "a"]

OneCall(f, c) ==
    /\ ~exited /\ calls < OneCalls /\ frames = <<>>
    /\ invoke(f, c)

OneRaises ==
    /\ ~exited /\ frames # <<>> /\ Last(frames).pending = <<>>
    /\ \E fault \in BodyFaults
                  \cup {[origin |-> "callable",
                         name |-> ExcName("ValueError"),
                         text |-> IndentedText, exception |-> TRUE]} :
          leaves(fault)

OneNext ==
    \/ Configure
    \/ \E f \in Callables : Decorate(f)
    \/ \E f \in Callables : \E kwargs \in OptionChoices : DecorateWith(f, kwargs)
    \/ \E f \in Callables : Bind(f)
    \/ \E f \in Callables : \E c \in CallShapes(f) : OneCall(f, c)
    \/ \E rv \in ReturnValues \cup {[type |-> "str", text |-> IndentedText]} :
          Return(rv)
    \/ OneRaises

SpecOne == Init /\ [][OneNext]_vars

\* Nested invocations: the callables are decorated with the default options
\* and call one another (and themselves) up to NestDepth deep; they return,
\* and a fault of trace_entry is caught by the caller or propagates.
NestSettings ==
    {Settings(<<FALSE, FALSE, FALSE, TRUE>>, resolution, format[1], format[2],
              TRUE, TRUE) :
        resolution \in BOOLEAN, format \in {<<TRUE, RunWidth>>, <<FALSE, 0>>}}

NestShapes(f) ==
    CASE f = "add" ->
            {[args |-> <<IntValue(2), IntValue(3)>>, kwargs |-> <<>>],
             [args |-> <<IntValue(2)>>, kwargs |-> (<<"b">> :> IntValue(3))]}
      [] f = "grow" ->
            {[args |-> <<ObjectValue, IntValue(3)>>, kwargs |-> <<>>]}

NestConfigure ==
    /\ ~settings.configured
    /\ \E cfg \in NestSettings : configure(cfg)

NestCall(f, c) ==
    /\ ~exited /\ calls < NestCalls /\ Len(frames) < NestDepth
    /\ invoke(f, c)

NestNext ==
    \/ NestConfigure
    \/ \E f \in Callables : Decorate(f)
    \/ \E f \in Callables : \E c \in NestShapes(f) : NestCall(f, c)
    \/ \E rv \in ReturnValues : Return(rv)
    \/ Propagate
    \/ Catch

SpecNest == Init /\ [][NestNext]_vars

\* Lists and dicts as values: the program of these runs has the callables
\* join(xs, ys=[9]) and table(xs, ys={'a': 1}), passes lists, dicts and
\* integers to them and has them return such values, under every choice of
\* collapse_lists and collapse_dicts.
CollapseCallables == {"join", "table"}

CollapseInit ==
    /\ stack = <<>>
    /\ disabled = FALSE
    /\ settings = NoSettings
    /\ wfile = "None"
    /\ log = <<>>
    /\ flushed = 0
    /\ released = <<>>
    /\ last = NoCall
    /\ pushes = 0
    /\ pops = 0
    /\ emptypops = 0
    /\ tf = [f \in CollapseCallables |-> NoInstance]
    /\ frames = <<>>
    /\ exited = FALSE
    /\ calls = 0

CollapseNext ==
    \/ /\ ~settings.configured
       /\ \E lists \in BOOLEAN : \E dicts \in BOOLEAN :
             configure([Settings(<<FALSE, FALSE, FALSE, TRUE>>, FALSE, TRUE,
                                 RunWidth, TRUE, TRUE)
                           EXCEPT !.collapse_lists = lists,
                                  !.collapse_dicts = dicts])
    \/ \E f \in CollapseCallables : Decorate(f)
    \/ \E f \in CollapseCallables : \E kwargs \in OptionChoices :
          DecorateWith(f, kwargs)
    \/ \E f \in CollapseCallables : Bind(f)
    \/ \E f \in CollapseCallables : \E c \in {[args |-> <<Items>>, kwargs |-> <<>>],
                 [args |-> <<Table>>, kwargs |-> <<>>],
                 [args |-> <<IntValue(5)>>, kwargs |-> <<>>],
                 [args |-> <<Items, OneItem>>, kwargs |-> <<>>],
                 [args |-> <<Items>>, kwargs |-> (<<"y", "s">> :> Items)],
                 [args |-> <<Table>>, kwargs |-> (<<"y", "s">> :> Table)]} :
             OneCall(f, c)
    \/ \E rv \in {Items, Table, IntValue(5)} : Return(rv)

SpecCollapse == CollapseInit /\ [][CollapseNext]_vars

\* Two execution contexts (threads) call the traced callables. The
\* ClassNameStack, the settings and the log file are attributes of classes,
\* one of each for the process, and neither __call__ nor PyLg.write takes a
\* lock: the contexts interleave between the statements of __call__ and
\* between cls.wfile.write(string) and cls.wfile.flush() of PyLg.write. In
\* these runs frames holds, for each context, the invocation it is in and
\* the statement it is at: "inserted" after ClassNameStack.insert,
\* "entry_written" inside PyLg.write after the ENTRY record was written and
\* before the flush, "running" in the callable, "exit_written" inside
\* PyLg.write for the EXIT record, "exited" before ClassNameStack.pop().
Contexts == {1, 2}

ThreadInit ==
    /\ stack = <<>>
    /\ disabled = FALSE
    /\ settings = NoSettings
    /\ wfile = "None"
    /\ log = <<>>
    /\ flushed = 0
    /\ released = <<>>
    /\ last = NoCall
    /\ pushes = 0
    /\ pops = 0
    /\ emptypops = 0
    /\ tf = [f \in Callables |-> NoInstance]
    /\ frames = [t \in Contexts |-> [pc |-> "idle"]]
    /\ exited = FALSE
    /\ calls = 0

\* TraceFunction(function), before the contexts make their calls
ThreadDecorate(f) ==
    /\ settings.configured /\ ~tf[f].made /\ calls = 0
    /\ tf' = [tf EXCEPT ![f] = [made |-> TRUE, bound |-> TRUE,
                                opts |-> default_options(settings)]]
    /\ last' = [op |-> "decorate", exc |-> NoFault]
    /\ UNCHANGED <<stack, disabled, settings, wfile, log, flushed, released, counters,
                   frames, exited, calls>>

\* an invocation of a context has ended: what its caller saw of it
thread_ended(t, fr, outcome, result, popped, stk, exit_written) ==
    [op |-> "thread_call", context |-> t, f |-> fr.f, outcome |-> outcome,
     result |-> result, popped |-> popped,
     depth_before |-> fr.depth_before, depth_after |-> Len(stk),
     entry_written |-> fr.written, exit_written |-> exit_written]

\* ClassNameStack.insert(self.function.classname) of a call in context t
ThreadInsert(t, f, c) ==
    /\ frames[t].pc = "idle" /\ calls < ThreadCalls
    /\ tf[f].made /\ tf[f].bound
    /\ Accepts(TraceFunctionStruct(f), c.args, c.kwargs)
    /\ stack' = insert(stack, disabled, TraceFunctionStruct(f).classname)
    /\ frames' = [frames EXCEPT ![t] =
                     [pc |-> "inserted", f |-> f, args |-> c.args,
                      kwargs |-> c.kwargs, depth_before |-> Len(stack),
                      written |-> <<>>]]
    /\ calls' = calls + 1
    /\ last' = [op |-> "insert", context |-> t, f |-> f]
    /\ UNCHANGED <<disabled, settings, wfile, log, flushed, released, counters, tf,
                   exited>>

\* self.trace_entry(*args, **kwargs) gave r, up to cls.wfile.write(string)
\* of PyLg.write: the record is in the buffer of the file object, not flushed
\* yet, or the fault leaves __call__
entry_traced(t, r) ==
    /\ log' = log \o r.written
    /\ IF r.exc = NoFault
       THEN /\ frames' = [frames EXCEPT ![t].pc = "entry_written",
                                        ![t].written = r.written]
            /\ last' = [op |-> "entry", context |-> t, f |-> frames[t].f]
       ELSE /\ frames' = [frames EXCEPT ![t] = [pc |-> "idle"]]
            /\ last' = thread_ended(t, frames[t], "raised", PyLgFault(r),
                                    <<>>, stack, <<>>)
    /\ UNCHANGED <<stack, disabled, settings, wfile, flushed, released,
                   counters, tf, exited, calls>>

ThreadEntry(t) ==
    /\ frames[t].pc = "inserted"
    /\ entry_traced(t, trace_entry(settings, stack, disabled, wfile,
                                   tf[frames[t].f].opts,
                                   TraceFunctionStruct(frames[t].f),
                                   frames[t].args, frames[t].kwargs))

\* cls.wfile.flush() of the PyLg.write a context is in: all that the file
\* object buffers, the records of the other context too, goes to the file;
\* PyLg.write and trace return, and after the ENTRY record the callable
\* starts
ThreadFlush(t) ==
    /\ frames[t].pc \in {"entry_written", "exit_written"}
    /\ flushed' = Len(log)
    /\ frames' = [frames EXCEPT ![t].pc = IF @ = "entry_written"
                                          THEN "running" ELSE "exited"]
    /\ last' = [op |-> "flush", context |-> t, f |-> frames[t].f]
    /\ UNCHANGED <<stack, disabled, settings, wfile, log, released, counters,
                   tf, exited, calls>>

\* the callable returned rv and self.trace_exit(rv) gave r, up to
\* cls.wfile.write(string) of PyLg.write
exit_traced(t, rv, r) ==
    /\ log' = log \o r.written
    /\ IF r.exc = NoFault
       THEN /\ frames' = [frames EXCEPT ![t] =
                             [pc |-> "exit_written", f |-> frames[t].f,
                              depth_before |-> frames[t].depth_before,
                              written |-> frames[t].written, rv |-> rv,
                              exit_written |-> r.written]]
            /\ last' = [op |-> "exit", context |-> t, f |-> frames[t].f]
       ELSE /\ frames' = [frames EXCEPT ![t] = [pc |-> "idle"]]
            /\ last' = thread_ended(t, frames[t], "raised", PyLgFault(r),
                                    <<>>, stack, r.written)
    /\ UNCHANGED <<stack, disabled, settings, wfile, flushed, released,
                   counters, tf, exited, calls>>

ThreadExit(t) ==
    /\ frames[t].pc = "running"
    /\ \E rv \in ReturnValues :
          exit_traced(t, rv,
                      trace_exit(settings, stack, disabled, wfile,
                                 tf[frames[t].f].opts,
                                 TraceFunctionStruct(frames[t].f), rv))

\* ClassNameStack.pop() and return rv
ThreadPop(t) ==
    /\ frames[t].pc = "exited"
    /\ stack' = pop(stack, disabled).stack
    /\ frames' = [frames EXCEPT ![t] = [pc |-> "idle"]]
    /\ last' = thread_ended(t, frames[t], "returned", frames[t].rv,
                            <<pop(stack, disabled).rv>>,
                            pop(stack, disabled).stack,
                            frames[t].exit_written)
    /\ UNCHANGED <<disabled, settings, wfile, log, flushed, released, counters, tf,
                   exited, calls>>

ThreadNext ==
    \/ NestConfigure
    \/ \E f \in Callables : ThreadDecorate(f)
    \/ \E t \in Contexts : \E f \in Callables : \E c \in NestShapes(f) :
          ThreadInsert(t, f, c)
    \/ \E t \in Contexts : ThreadEntry(t)
    \/ \E t \in Contexts : ThreadFlush(t)
    \/ \E t \in Contexts : ThreadExit(t)
    \/ \E t \in Contexts : ThreadPop(t)

SpecThreads == ThreadInit /\ [][ThreadNext]_vars

\* Binding: the program constructs TraceFunction instances with any
\* arguments and calls them with any arguments; an instance without a
\* callable takes the call as its binding, one with a callable as a traced
\* invocation.
\* a positional argument that is not callable
NotCallable == "five"

\* init_function(*args, **kwargs) on the instance inst: the fault raised, if
\* any, and the instance afterwards
init_function_any_target(inst, args, kwargs) ==
    IF DOMAIN kwargs # {} THEN [exc |-> "AssertionError", inst |-> inst]
    ELSE IF Len(args) # 1 THEN [exc |-> "AssertionError", inst |-> inst]
    ELSE [exc |-> NoFault, inst |-> [inst EXCEPT !.bound = TRUE]]

init_function(inst, args, kwargs) ==
    IF DOMAIN kwargs # {} THEN [exc |-> "AssertionError", inst |-> inst]
    ELSE IF Len(args) # 1 THEN [exc |-> "AssertionError", inst |-> inst]
    ELSE IF args[1] \notin Callables THEN [exc |-> "AssertionError", inst |-> inst]
    ELSE [exc |-> NoFault, inst |-> [inst EXCEPT !.bound = TRUE]]

\* TraceFunction.__init__(*args, **kwargs), the option values being booleans;
\* a fault of init_function in the constructor leaves no instance
init(cfg, args, kwargs) ==
    IF args = <<>> /\ DOMAIN kwargs = {}
    THEN [exc |-> "AssertionError", inst |-> NoInstance]
    ELSE IF ~cfg.configured
    THEN [exc |-> "AttributeError", inst |-> NoInstance]
    ELSE IF args # <<>>
    THEN IF init_function([made |-> TRUE, bound |-> FALSE,
                           opts |-> default_options(cfg)],
                          args, kwargs).exc # NoFault
         THEN [exc |-> "AssertionError", inst |-> NoInstance]
         ELSE init_function([made |-> TRUE, bound |-> FALSE,
                             opts |-> default_options(cfg)], args, kwargs)
    ELSE [exc |-> NoFault,
          inst |-> [made |-> TRUE, bound |-> FALSE,
                    opts |-> options_from(cfg, kwargs)]]

\* the positional arguments the program gives when it means the callable f
TargetLists(f) ==
    {<<>>, <<f>>, <<NotCallable>>, <<f, f>>, <<f, NotCallable>>}

\* the program evaluates TraceFunction(*args, **kwargs) for its callable f
Construct(f) ==
    /\ ~exited /\ frames = <<>> /\ ~tf[f].made
    /\ \E args \in TargetLists(f) : \E kwargs \in {<<>>} \cup OptionChoices :
          /\ tf' = [tf EXCEPT ![f] = init(settings, args, kwargs).inst]
          /\ last' = [op |-> "init", f |-> f, args |-> args,
                      kwargs |-> kwargs,
                      exc |-> init(settings, args, kwargs).exc]
    /\ UNCHANGED <<stack, disabled, settings, wfile, log, flushed, released, counters,
                   frames, exited, calls>>

\* the binding branch of __call__: init_function, then return self
binding_forgetting(f, args, kwargs, r) ==
    /\ last' = [op |-> "init_function", f |-> f, args |-> args,
                kwargs |-> kwargs, exc |-> r.exc,
                rv |-> IF r.exc = NoFault THEN "self" ELSE "nothing"]
    /\ UNCHANGED <<stack, disabled, settings, wfile, log, flushed, released, counters,
                   tf, frames, exited, calls>>

binding(f, args, kwargs, r) ==
    /\ tf' = [tf EXCEPT ![f] = r.inst]
    /\ last' = [op |-> "init_function", f |-> f, args |-> args,
                kwargs |-> kwargs, exc |-> r.exc,
                rv |-> IF r.exc = NoFault THEN "self" ELSE "nothing"]
    /\ UNCHANGED <<stack, disabled, settings, wfile, log, flushed, released, counters,
                   frames, exited, calls>>

\* the program calls the instance made for f: __call__
CallInstance(f) ==
    /\ ~exited /\ frames = <<>> /\ tf[f].made
    /\ IF ~tf[f].bound
       THEN \E args \in TargetLists(f) : \E kwargs \in {<<>>} \cup OptionChoices :
                binding(f, args, kwargs, init_function(tf[f], args, kwargs))
       ELSE /\ calls < BindCalls
            /\ \E c \in NestShapes(f) : invoke(f, c)

BindNext ==
    \/ NestConfigure
    \/ \E f \in Callables : Construct(f)
    \/ \E f \in Callables : CallInstance(f)
    \/ \E rv \in ReturnValues : Return(rv)

SpecBind == Init /\ [][BindNext]_vars

\* The package with PYLG_ENABLE false: the replacement of dummy.py.
\* init_function of the dummy: the callable is all the instance keeps
dummy_init_function(inst, args, kwargs) ==
    IF DOMAIN kwargs # {} THEN [exc |-> "AssertionError", inst |-> inst]
    ELSE IF Len(args) # 1 THEN [exc |-> "AssertionError", inst |-> inst]
    ELSE IF args[1] \notin Callables
    THEN [exc |-> "AssertionError", inst |-> inst]
    ELSE [exc |-> NoFault, inst |-> [made |-> TRUE, bound |-> TRUE]]

\* the dummy TraceFunction.__init__(*args, **kwargs): with positional
\* arguments init_function decides (it takes no keyword), with keywords only
\* the assertions of the "if kwargs:" block do
dummy_init(args, kwargs) ==
    IF args = <<>> /\ DOMAIN kwargs = {}
    THEN [exc |-> "AssertionError", inst |-> NoInstance]
    ELSE IF args # <<>>
    THEN dummy_init_function(NoInstance, args, kwargs)
    ELSE IF Cardinality(DOMAIN kwargs) > 2
    THEN [exc |-> "AssertionError", inst |-> NoInstance]
    ELSE IF /\ Cardinality(DOMAIN kwargs) = 1
            /\ ~("trace_rv" \in DOMAIN kwargs \/ "trace_args" \in DOMAIN kwargs)
    THEN [exc |-> "AssertionError", inst |-> NoInstance]
    ELSE IF /\ Cardinality(DOMAIN kwargs) = 2
            /\ ~("trace_rv" \in DOMAIN kwargs /\ "trace_args" \in DOMAIN kwargs)
    THEN [exc |-> "AssertionError", inst |-> NoInstance]
    ELSE [exc |-> NoFault, inst |-> [made |-> TRUE, bound |-> FALSE]]

\* the keyword arguments given to the dummy
DummyKwargs ==
    {<<>>} \cup OptionChoices
    \cup {[trace_args |-> FALSE, trace_rv |-> FALSE],
           [trace_rv |-> FALSE]}

\* the program imports the package: pylg/__init__.py imports the name
\* TraceFunctionDummy from dummy.py, which defines TraceFunction and trace
DummyImport ==
    /\ \E enable \in BOOLEAN :
          last' = [op |-> "import", enable |-> enable,
                   exc |-> IF enable THEN NoFault
                           ELSE IF "TraceFunctionDummy"
                                   \in {"TraceFunction", "trace"}
                           THEN NoFault
                           ELSE "ImportError"]
    /\ UNCHANGED <<stack, disabled, settings, wfile, log, flushed, released, counters,
                   calling>>

\* the program evaluates the dummy's TraceFunction(*args, **kwargs) for f
DummyConstruct(f) ==
    /\ ~tf[f].made
    /\ \E args \in TargetLists(f) : \E kwargs \in DummyKwargs :
          /\ tf' = [tf EXCEPT ![f] = dummy_init(args, kwargs).inst]
          /\ last' = [op |-> "dummy_init", f |-> f, args |-> args,
                      kwargs |-> kwargs, exc |-> dummy_init(args, kwargs).exc]
    /\ UNCHANGED <<stack, disabled, settings, wfile, log, flushed, released, counters,
                   frames, exited, calls>>

\* the program calls the dummy instance made for f: __call__ binds the
\* callable and returns self, or returns self.function(*args, **kwargs),
\* where the callable returns a value or raises a fault
DummyCallInstance(f) ==
    /\ tf[f].made
    /\ IF ~tf[f].bound
       THEN \E args \in TargetLists(f) : \E kwargs \in DummyKwargs :
              /\ tf' = [tf EXCEPT ![f] =
                          dummy_init_function(tf[f], args, kwargs).inst]
              /\ last' = [op |-> "dummy_init_function", f |-> f,
                          args |-> args, kwargs |-> kwargs,
                          exc |-> dummy_init_function(tf[f], args, kwargs).exc,
                          rv |-> IF dummy_init_function(tf[f], args,
                                                        kwargs).exc = NoFault
                                 THEN "self" ELSE "nothing"]
       ELSE /\ tf' = tf
            /\ \E c \in CallShapes(f) :
               \E body \in {[kind |-> "returned", result |-> rv] :
                               rv \in ReturnValues}
                            \cup {[kind |-> "raised", result |-> fault] :
                                    fault \in BodyFaults} :
                  last' = [op |-> "dummy_call", f |-> f, args |-> c.args,
                           kwargs |-> c.kwargs, body |-> body,
                           outcome |-> body.kind, result |-> body.result]
    /\ UNCHANGED <<stack, disabled, settings, wfile, log, flushed, released, counters,
                   frames, exited, calls>>

DummyNext ==
    \/ DummyImport
    \/ \E f \in Callables : DummyConstruct(f)
    \/ \E f \in Callables : DummyCallInstance(f)

SpecDummy == Init /\ [][DummyNext]_vars


\* ------------------------------------------------- reading a record back

\* the width of the fixed columns of the records of a direct trace call
Premsglen == Len(fixed_columns(settings, CallerFrame, CallerFrame.functionname))

\* the physical lines of a text whose lines all end with a line break
PhysicalLines(text) == splitlines(text)

\* line without its first n characters
Without(line, n) == SubSeq(line, n + 1, Len(line))

\* the message sub-lines of the record last written: its physical lines
\* without the fixed columns (first line) or the alignment blanks (others)
SubLines ==
    [i \in 1..Len(PhysicalLines(last.written[1])) |->
        Without(PhysicalLines(last.written[1])[i], Premsglen)]

\* the line-break-delimited lines of the message last traced
MessageLines == or_empty(splitlines(last.message))

\* the number of sub-lines the line of index i (from 1) is emitted as
SubLineCount(i) == Len(or_empty(wrap(MessageLines[i], settings.message_width).val))

RECURSIVE SubLinesBefore(_)
SubLinesBefore(i) == IF i <= 1 THEN 0 ELSE SubLinesBefore(i - 1) + SubLineCount(i - 1)

\* the emitted sub-lines of the line of index i
SubLinesOf(i) == SubSeq(SubLines, SubLinesBefore(i) + 1, SubLinesBefore(i) + SubLineCount(i))

RECURSIVE JoinWithBlank(_)
\* " ".join(parts)
JoinWithBlank(parts) ==
    IF parts = <<>> THEN <<>>
    ELSE IF Len(parts) = 1 THEN Head(parts)
    ELSE Head(parts) \o <<" ">> \o JoinWithBlank(Tail(parts))

\* text without its blanks
NoBlanks(text) == SelectSeq(text, LAMBDA c : c # " ")

\* a line of words no longer than w, one blank between two words, no blank
\* at either end
PlainLine(line, w) ==
    /\ \A i \in 1..Len(line) :
          line[i] = " " => /\ 1 < i /\ i < Len(line)
                           /\ line[i - 1] # " " /\ line[i + 1] # " "
    /\ \A i \in 1..(Len(line) - w) :
          \E j \in i..(i + w) : line[j] = " "

\* a direct trace call has written a record in wrap mode, positive width
WrappedRecord ==
    /\ last.op = "trace"
    /\ last.exc = NoFault
    /\ settings.trace_message
    /\ settings.message_wrap
    /\ settings.message_width > 0

\* a direct trace call has written a record with the message column
MessageRecord ==
    /\ last.op = "trace"
    /\ last.exc = NoFault
    /\ settings.trace_message

RECURSIVE SubLinesUpTo(_)
\* the number of physical lines the first n message lines are emitted as
SubLinesUpTo(n) ==
    IF n = 0 THEN 0
    ELSE SubLinesUpTo(n - 1)
         + (IF settings.message_wrap THEN SubLineCount(n) ELSE 1)

\* the number of line breaks of text
LineBreaks(text) == Cardinality({i \in 1..Len(text) : text[i] = "\n"})

\* text ends with a line break that no other line break precedes
EndsWithOneLineBreak(text) ==
    /\ Len(text) > 0
    /\ text[Len(text)] = "\n"
    /\ Len(text) > 1 => text[Len(text) - 1] # "\n"

\* a direct trace call was made in truncate mode with the truncation mark
\* and a positive width
TruncatingCall ==
    /\ last.op = "trace"
    /\ settings.trace_message
    /\ ~settings.message_wrap
    /\ settings.message_mark_truncation
    /\ settings.message_width > 0

\* the number of segments line wraps into at width w
Segments(line, w) == Len(wrap(line, w).val)

\* ------------------------------------------------------------------ claims

\* C1: every invocation of a bound TraceFunction that ends without
\* force-exit leaves the ClassNameStack as deep as it found it: the push made
\* on entry is matched by one pop.
C1_DepthRestored ==
    (last.op = "call" /\ last.outcome # "exit")
        => last.depth_after = last.depth_before

\* sub occurs in text, character for character
Contains(text, sub) ==
    \E i \in 0..(Len(text) - Len(sub)) : SubSeq(text, i + 1, i + Len(sub)) = sub

\* the invocation that ended last had its callable raise a fault, with
\* force-exit off
CallableRaised ==
    /\ last.op = "call"
    /\ last.body # <<>> /\ last.body[1].kind = "raised"
    /\ ~last.force_exit

\* C2 as stated: when the callable raises a fault and force-exit is off,
\* exactly one EXIT record is written, it contains the fault's type name and
\* its message text, and the very same fault propagates to the caller.
C2_FaultRecordedVerbatim ==
    CallableRaised
        => /\ Len(last.exit_written) = 1
           /\ Contains(last.exit_written[1], last.body[1].result.name)
           /\ Contains(last.exit_written[1], last.body[1].result.text)
           /\ last.outcome = "raised"
           /\ last.result = last.body[1].result

\* the line "<- EXIT : <type> RAISED - <text>" of the fault
ExitLine(fault) ==
    exception_message([exception_tb_file |-> FALSE], TraceFunctionStruct("add"),
                      fault, [context |-> <<>>, frames |-> <<>>])

\* the message column is on and the EXIT line of the fault is one line that
\* fits message_width and does not end in a blank
ExitLineFits(fault) ==
    /\ settings.trace_message
    /\ Len(splitlines(ExitLine(fault))) = 1
    /\ Len(ExitLine(fault)) <= settings.message_width
    /\ Last(ExitLine(fault)) # " "

\* trace fails its assertion on the message: truncate mode with the mark, a
\* line of more than one segment whose first segment is blank
\* a wrapped line of more than one segment whose first segment is blank
BlankFirstOfSeveral(segments) ==
    Len(segments) > 1 /\ IsBlank(segments[1])

\* one of the lines wraps, at message_width, to such segments
SomeLineFaults(lines) ==
    \E i \in 1..Len(lines) :
        BlankFirstOfSeveral(wrap(lines[i], settings.message_width).val)

FormatterFaults(message) ==
    /\ settings.trace_message
    /\ ~settings.message_wrap
    /\ settings.message_mark_truncation
    /\ settings.message_width > 1
    /\ SomeLineFaults(or_empty(splitlines(message)))

\* the message of the EXIT record of the fault the callable of the
\* invocation that ended last raised
RaisedMessage ==
    exception_message(tf[last.f].opts, TraceFunctionStruct(last.f),
                      last.body[1].result, [context |-> <<>>, frames |-> <<>>])

\* C2 amended: when the callable raises a fault and force-exit is off, the
\* very same fault propagates to the caller; if the fault is an Exception,
\* exactly one EXIT record is written before that, and when the message
\* column is on and the EXIT line is a single line within message_width
\* that does not end in a blank the record contains the fault's type name
\* and message text; a fault that is not an Exception gets no EXIT record;
\* and when trace fails its assertion on the EXIT message no record is
\* written and the caller gets the AssertionError instead.
C2_FaultReraisedAndRecordedWhenItFits ==
    CallableRaised
        => /\ last.outcome = "raised"
           /\ IF last.body[1].result.exception /\ FormatterFaults(RaisedMessage)
              THEN /\ last.result.origin = "pylg"
                   /\ last.result.name = ExcName("AssertionError")
                   /\ last.exit_written = <<>>
              ELSE /\ last.result = last.body[1].result
                   /\ Len(last.exit_written)
                         = (IF last.body[1].result.exception THEN 1 ELSE 0)
                   /\ (last.body[1].result.exception
                       /\ ExitLineFits(last.body[1].result))
                         => /\ Contains(last.exit_written[1],
                                        last.body[1].result.name)
                            /\ Contains(last.exit_written[1],
                                        last.body[1].result.text)

\* C2 witness: a callable raised a fault with a message text, the EXIT line
\* fits, and the invocation has ended.
C2_Witness ==
    /\ CallableRaised
    /\ last.body[1].result.text # <<>>
    /\ last.body[1].result.exception
    /\ ExitLineFits(last.body[1].result)
    /\ last.outcome = "raised"

\* C3: with force-exit off, a call the callable accepts invokes the callable
\* exactly once and yields exactly the value it returns or the fault it
\* raises; the tracing raises no fault of its own.
C3_TracingIsPureObservation ==
    (last.op = "call" /\ ~last.force_exit)
        => /\ last.invoked = 1
           /\ last.body = <<[kind |-> last.outcome, result |-> last.result]>>

\* C7: formatting never fails - under every validated configuration and for
\* every message, trace() raises nothing and hands exactly one string to the
\* log file.
C7_FormattingNeverFails ==
    last.op = "trace" => (last.exc = NoFault /\ Len(last.written) = 1)

\* C8: with message_width = 0 the message column of the record is the
\* message verbatim on one line, in wrap mode and in truncate mode.
C8_UnlimitedWidthVerbatim ==
    (/\ last.op = "trace"
     /\ settings.trace_message
     /\ settings.message_width = 0
     /\ disabled
     /\ \A i \in 1..Len(last.message) : last.message[i] # "\n")
    => /\ last.exc = NoFault
       /\ last.written
            = <<fixed_columns(settings, CallerFrame, CallerFrame.functionname)
                \o last.message \o <<"\n">>>>

\* C9: in wrap mode with a positive message_width w, every emitted message
\* sub-line is at most w characters long.
C9_SubLinesFitWidth ==
    WrappedRecord =>
        \A i \in 1..Len(SubLines) : Len(SubLines[i]) <= settings.message_width

\* a one-line message was wrapped into several sub-lines
C9_Witness ==
    /\ WrappedRecord
    /\ Len(MessageLines) = 1
    /\ Len(SubLines) > 1
    /\ \E i \in 1..Len(SubLines) : Len(SubLines[i]) = settings.message_width

\* C10 as stated: in wrap mode with a positive width, joining the emitted
\* sub-lines of each line of the message with one blank gives back the line.
C10_JoinGivesBackLine ==
    WrappedRecord =>
        \A i \in 1..Len(MessageLines) :
            JoinWithBlank(SubLinesOf(i)) = MessageLines[i]

\* C10, amended: in wrap mode with a positive width w no character other
\* than a blank is lost, added or moved - the sub-lines of each line, put
\* together, are the line without its blanks - and a line of words no longer
\* than w with single blanks between them is given back exactly by joining
\* its sub-lines with one blank.
C10_NoTextLost ==
    WrappedRecord =>
        \A i \in 1..Len(MessageLines) :
            /\ NoBlanks(Flatten(SubLinesOf(i))) = NoBlanks(MessageLines[i])
            /\ PlainLine(MessageLines[i], settings.message_width)
                 => JoinWithBlank(SubLinesOf(i)) = MessageLines[i]

\* a line of words no longer than the width, with single blanks between
\* them, was wrapped into several sub-lines
C10_Witness ==
    /\ WrappedRecord
    /\ \E i \in 1..Len(MessageLines) :
          /\ PlainLine(MessageLines[i], settings.message_width)
          /\ Len(SubLinesOf(i)) > 1
          /\ \E j \in 1..Len(MessageLines[i]) : MessageLines[i][j] = " "

\* the larger of two numbers
Max(a, b) == IF a >= b THEN a ELSE b

\* C4 as stated: after any sequence of insert and pop calls from the empty
\* stack the depth is the number of pushes minus the number of pops, clamped
\* at 0.
C4_DepthIsClampedDifference ==
    ~disabled => Len(stack) = Max(0, pushes - pops)

\* C4, amended: while the stack has not been disabled, its depth is the
\* number of pushes minus the number of pops that found an entry to remove
\* (a pop on the empty stack removes nothing and is not made up for by a
\* later push).
C4_DepthIsPushesMinusEffectivePops ==
    ~disabled => Len(stack) = pushes - (pops - emptypops)

\* the stack holds an entry pushed after a pop that found it empty
C4_Witness ==
    /\ ~disabled
    /\ emptypops > 0
    /\ pops > emptypops
    /\ Len(stack) > 0

\* C5 as stated: pop and peek on the empty stack give None and leave it
\* empty; on a non-empty stack peek gives the last pushed entry and changes
\* nothing, pop removes exactly that entry.
C5_PopPeekContract ==
    /\ (last.op \in {"pop", "peek"} /\ last.before = <<>>)
          => (last.rv = None /\ last.exc = NoFault /\ stack = <<>>)
    /\ (last.op = "peek" /\ last.before # <<>>)
          => (last.rv = Last(last.before) /\ stack = last.before)
    /\ (last.op = "pop" /\ last.before # <<>>)
          => (last.rv = Last(last.before) /\ stack = Front(last.before))

\* C5, amended: the same, the part about pop on a non-empty stack holding
\* for a stack that has not been disabled; once disable() has run, pop gives
\* None and removes nothing.
C5_PopPeekContractUntilDisabled ==
    /\ (last.op \in {"pop", "peek"} /\ last.before = <<>>)
          => (last.rv = None /\ last.exc = NoFault /\ stack = <<>>)
    /\ (last.op = "peek" /\ last.before # <<>>)
          => (last.rv = Last(last.before) /\ stack = last.before)
    /\ (last.op = "pop" /\ last.before # <<>> /\ ~disabled)
          => (last.rv = Last(last.before) /\ stack = Front(last.before))
    /\ (last.op = "pop" /\ last.before # <<>> /\ disabled)
          => (last.rv = None /\ stack = last.before)

\* a pop took the newer of two different entries off a live stack
C5_Witness ==
    /\ ~disabled
    /\ last.op = "pop"
    /\ Len(last.before) >= 2
    /\ last.before[1] # Last(last.before)

\* C6: once disable() has run, insert and pop leave the stack contents as
\* they are, and every read of the qualifier, by peek and by the formatter's
\* lookup (get), gives None, whatever the stack held when it was disabled.
C6_DisabledStackReadsNone ==
    disabled =>
        /\ last.op \in {"insert", "pop"} => stack = last.before
        /\ last.op \in {"peek", "get"} => (last.rv = None /\ last.exc = NoFault)

\* C11 (its statement about the marked line): in truncate mode with the
\* truncation mark and a positive message_width w, every line of the message
\* whose word-wrapped form at width w has more than one segment is emitted
\* as exactly w characters, the last being the marker.
C11_LongLineEmittedMarked ==
    TruncatingCall
        => /\ last.exc = NoFault
           /\ \A i \in 1..Len(MessageLines) :
                 Segments(MessageLines[i], settings.message_width) > 1
                    => /\ Len(SubLines[i]) = settings.message_width
                       /\ Last(SubLines[i]) = "\\"

\* C12: in wrap mode every physical line of a record after the first starts
\* with as many blanks as the fixed columns of the first line are wide (the
\* first line starting with these columns), so that its text starts in the
\* column of the first line's message.
C12_ContinuationAligned ==
    WrappedRecord =>
        /\ SubSeq(PhysicalLines(last.written[1])[1], 1, Premsglen)
              = fixed_columns(settings, CallerFrame, CallerFrame.functionname)
        /\ \A i \in 2..Len(PhysicalLines(last.written[1])) :
              /\ Len(PhysicalLines(last.written[1])[i]) >= Premsglen
              /\ SubSeq(PhysicalLines(last.written[1])[i], 1, Premsglen)
                    = Spaces(Premsglen)

\* a record with fixed columns had a second message line and a continuation
\* sub-line of a wrapped line
C12_Witness ==
    /\ WrappedRecord
    /\ Premsglen > 0
    /\ Len(MessageLines) > 1
    /\ Len(SubLines) > Len(MessageLines)

\* C13 (as stated): with the message column enabled, a record has one line
\* break for each of its physical message lines and ends with exactly one
\* line break; an empty message gives the fixed columns and one line break.
C13_RecordEndsWithOneLineBreak ==
    MessageRecord =>
        /\ LineBreaks(last.written[1]) = SubLinesUpTo(Len(MessageLines))
        /\ EndsWithOneLineBreak(last.written[1])
        /\ last.message = <<>> =>
              last.written[1]
                = fixed_columns(settings, CallerFrame, CallerFrame.functionname)
                  \o <<"\n">>

\* C13 (amended): with the message column enabled, a record has one line
\* break for each of its physical message lines and its last character is a
\* line break; it ends with exactly one line break unless no fixed column is
\* enabled and the last of several message lines is blank; an empty message
\* gives the fixed columns and one line break.
C13_OneLineBreakPerLine ==
    MessageRecord =>
        /\ LineBreaks(last.written[1]) = SubLinesUpTo(Len(MessageLines))
        /\ Len(last.written[1]) > 0
        /\ last.written[1][Len(last.written[1])] = "\n"
        /\ ~EndsWithOneLineBreak(last.written[1])
              => /\ Premsglen = 0
                 /\ Len(MessageLines) > 1
                 /\ IsBlank(MessageLines[Len(MessageLines)])
        /\ last.message = <<>> =>
              last.written[1]
                = fixed_columns(settings, CallerFrame, CallerFrame.functionname)
                  \o <<"\n">>

\* an empty message was written as a record with fixed columns
C13_Witness ==
    /\ MessageRecord
    /\ last.message = <<>>
    /\ Premsglen > 0
    /\ Len(last.written[1]) = Premsglen + 1

\* C14: under every configuration, the message column being enabled or not,
\* what a trace call writes to the log file is one block that ends with a
\* line break.
C14_BlockEndsWithLineBreak ==
    (last.op = "trace" /\ last.exc = NoFault)
        => /\ Len(last.written) = 1
           /\ Len(last.written[1]) > 0
           /\ last.written[1][Len(last.written[1])] = "\n"

\* C15: the log begins with the header line and its blank line, written
\* before any record, and every string written to the log file, the header
\* included, is flushed before the next string is written to it.
C15_HeaderFirstAndEveryWriteFlushed ==
    [][/\ log' # <<>> => log'[1] = Header
       /\ (log # <<>> /\ Len(log') > Len(log)) => flushed = Len(log)]_vars

\* C16: PyLg.write called while the log file is not open opens and
\* initialises a new log file and writes the string to it, without fault.
C16_WriteOpensTheLog ==
    last.op = "write"
        => /\ last.exc = NoFault
           /\ wfile = "open"
           /\ Len(log) >= 2
           /\ log[1] = Header
           /\ log[Len(log)] = last.string

\* the records of the invocations made inside a body, in the order they were
\* made, lie strictly between the log places from and to
Between(inner, from, to) ==
    \A k \in 1..Len(inner) :
        /\ from < inner[k].entry_at
        /\ inner[k].entry_at < inner[k].exit_at
        /\ inner[k].exit_at < to
        /\ k > 1 => inner[k - 1].exit_at < inner[k].entry_at

\* the record at place at of the log is record, and shows mark when the
\* message column is on
RecordAt(at, written, mark) ==
    /\ Len(written) = 1
    /\ at \in 1..Len(log)
    /\ log[at] = written[1]
    /\ settings.trace_message => Contains(log[at], mark)

\* C17: the records of nested invocations that return normally are well
\* nested: the ENTRY record of a running invocation is in the log before
\* anything of its body, after the ENTRY record of the invocation that called
\* it; the EXIT record of an invocation that returned is the last of the log
\* at its return, the stack being then as deep as before its push; and both
\* records of every invocation that returned inside the body lie strictly
\* between that ENTRY and that EXIT.
C17_RecordsWellNested ==
    /\ \A i \in 1..Len(frames) :
          /\ RecordAt(frames[i].entry_at, frames[i].written,
                      <<"-", ">", " ", "E", "N", "T", "R", "Y">>)
          /\ i > 1 => frames[i - 1].entry_at < frames[i].entry_at
          /\ Between(frames[i].inner, frames[i].entry_at, Len(log) + 1)
    /\ (last.op = "call" /\ last.outcome = "returned")
          => /\ RecordAt(last.entry_at, last.entry_written,
                         <<"-", ">", " ", "E", "N", "T", "R", "Y">>)
             /\ RecordAt(last.exit_at, last.exit_written,
                         <<"<", "-", " ", "E", "X", "I", "T">>)
             /\ last.exit_at = Len(log)
             /\ last.entry_at < last.exit_at
             /\ Between(last.inner, last.entry_at, last.exit_at)
             /\ last.depth_after = last.depth_before
             /\ frames # <<>> => Last(frames).entry_at < last.entry_at

\* an invocation has returned that called itself and one more callable,
\* both having returned, with the message column on
C17_Witness ==
    /\ last.op = "call" /\ last.outcome = "returned"
    /\ settings.trace_message
    /\ Len(last.inner) = 2
    /\ \E k \in 1..2 : last.inner[k].f = last.f

\* the invocation that ended last had its callable raise a fault, with
\* force-exit set
RaisedUnderForceExit ==
    /\ last.op = "call"
    /\ last.body # <<>> /\ last.body[1].kind = "raised"
    /\ last.force_exit

\* the EXIT record of the invocation that ended last is the last of the log
\* and is flushed, the process has ended, the stack is as the push left it
ExitedAfterRecord ==
    /\ last.outcome = "exit"
    /\ exited
    /\ Len(last.exit_written) = 1
    /\ log[Len(log)] = last.exit_written[1]
    /\ flushed = Len(log)
    /\ Len(stack) = last.depth_after
    /\ stack = insert(SubSeq(stack, 1, last.depth_before), disabled,
                      TraceFunctionStruct(last.f).classname)

\* C18 (as stated): when the callable raises a fault and force-exit is set,
\* the EXIT record is written and flushed and the process ends, the fault not
\* reaching the caller and the stack not popped.
C18_FaultForcesExit == RaisedUnderForceExit => ExitedAfterRecord

\* C18 (amended): when the callable raises a fault that is an Exception and
\* force-exit is set, the EXIT record is written and flushed and the process
\* ends, the fault not reaching the caller and the stack not popped, and no
\* step of the program follows; a fault that is not an Exception passes to
\* the caller with no record and no exit, and so does the AssertionError of
\* trace when it fails on the EXIT message.
C18_ExceptionForcesExit ==
    /\ [](RaisedUnderForceExit
            => IF ~last.body[1].result.exception
               THEN /\ last.outcome = "raised"
                    /\ last.result = last.body[1].result
                    /\ last.exit_written = <<>>
                    /\ ~exited
               ELSE IF FormatterFaults(RaisedMessage)
               THEN /\ last.outcome = "raised"
                    /\ last.result.name = ExcName("AssertionError")
                    /\ last.exit_written = <<>>
                    /\ ~exited
               ELSE ExitedAfterRecord)
    /\ [][~exited]_vars

\* the process has ended after the EXIT record of an Exception
C18_Witness ==
    /\ RaisedUnderForceExit
    /\ last.body[1].result.exception
    /\ ExitedAfterRecord

\* an invocation was made last, still running or ended: its callable, its
\* arguments and what was written for its entry
Invocation == last.op \in {"enter", "call"}

InvocationArgs == IF last.op = "enter" THEN Last(frames).args ELSE last.args

InvocationKwargs == IF last.op = "enter" THEN Last(frames).kwargs ELSE last.kwargs

EntryWritten == IF last.op = "enter" THEN Last(frames).written ELSE last.entry_written

\* the value the call gives the parameter of index i: passed positionally,
\* by keyword, or the declared default
ParameterValue(fn, args, kwargs, i) ==
    IF i <= Len(args) THEN args[i].text
    ELSE IF fn.varnames[i] \in DOMAIN kwargs THEN kwargs[fn.varnames[i]].text
    ELSE fn.defaults[fn.varnames[i]].text

RECURSIVE NamedValues(_, _, _, _)
\* the pairs "name = value" of the parameters from index i on, in declaration
\* order, a first parameter self left out unless trace_self is on
NamedValues(fn, args, kwargs, i) ==
    IF i > Len(fn.varnames) THEN <<>>
    ELSE (IF i = 1 /\ fn.varnames[i] = Self /\ ~settings.trace_self
          THEN <<>>
          ELSE <<fn.varnames[i] \o <<" ", "=", " ">>
                 \o ParameterValue(fn, args, kwargs, i)>>)
         \o NamedValues(fn, args, kwargs, i + 1)

RECURSIVE JoinWithComma(_)
\* ", ".join(parts)
JoinWithComma(parts) ==
    IF parts = <<>> THEN <<>>
    ELSE IF Len(parts) = 1 THEN Head(parts)
    ELSE Head(parts) \o <<",", " ">> \o JoinWithComma(Tail(parts))

\* the body the ENTRY record of the invocation is to have
EntryBody ==
    IF tf[last.f].opts.trace_args
    THEN JoinWithComma(NamedValues(TraceFunctionStruct(last.f), InvocationArgs,
                                   InvocationKwargs, 1))
    ELSE <<"-", "-", "-">>

\* the settings under which trace writes the messages of the runs whole:
\* class name resolution off, message column on, the wide message_width
WholeRecords ==
    /\ settings.configured
    /\ ~settings.class_name_resolution
    /\ settings.trace_message
    /\ settings.message_width = RunWidth

\* C19: for every invocation the ENTRY record has as its body the pair
\* name = value of every parameter in declaration order (value passed
\* positionally, by keyword or the declared default), self left out, or
\* "---" with argument tracing off; stated for the settings under which the
\* record is written whole.
C19_EntryBodyNamesEveryParameter ==
    (Invocation /\ WholeRecords)
        => /\ Len(EntryWritten) = 1
           /\ Contains(EntryWritten[1],
                       <<"-", ">", " ", "E", "N", "T", "R", "Y", ":", " ">>
                       \o EntryBody \o <<"\n">>)

\* the callable of the invocation that ended last returned a value
CallableReturned ==
    /\ last.op = "call"
    /\ last.body # <<>> /\ last.body[1].kind = "returned"

\* what the EXIT record is to show of the value rv: the value or the
\* marker, and the type name when return-type tracing is on
ValueShown(rv) == IF tf[last.f].opts.trace_rv THEN rv.text ELSE <<"-", "-", "-">>

TypeShown(rv) == <<"(", "t", "y", "p", "e", ":", " ">> \o TypeName(rv) \o <<")">>

ReturnShown(rv) ==
    <<"<", "-", " ", "E", "X", "I", "T", " ", ":", " ">> \o ValueShown(rv)
    \o (IF tf[last.f].opts.trace_rv_type THEN <<" ">> \o TypeShown(rv) ELSE <<>>)

\* the message column is on and text is one line that fits message_width
\* and does not end in a blank
Fits(text) ==
    /\ settings.trace_message
    /\ Len(splitlines(text)) = 1
    /\ Len(text) <= settings.message_width
    /\ Last(text) # " "

\* C20 (as stated): on every normal return, the none value included, the
\* EXIT record contains the return value, or "---" with return-value tracing
\* off, followed by the value's type name exactly when return-type tracing
\* is on; stated for the settings under which the record is written whole.
C20_ExitShowsEveryReturnValue ==
    (CallableReturned /\ WholeRecords /\ Fits(ReturnShown(last.body[1].result)))
        => /\ last.outcome = "returned"
           /\ Len(last.exit_written) = 1
           /\ Contains(last.exit_written[1], ValueShown(last.body[1].result))
           /\ tf[last.f].opts.trace_rv_type
                 <=> Contains(last.exit_written[1],
                              TypeShown(last.body[1].result))

\* C20 (amended): on a normal return with a value other than none, the EXIT
\* record is written and, when its line fits, reads "<- EXIT : " and the
\* value, or "---" with return-value tracing off, followed by the type name
\* exactly when return-type tracing is on; for the none value it reads
\* "<- EXIT" alone; and when trace fails its assertion on the EXIT message no
\* record is written and the caller gets the AssertionError.
C20_ExitShowsReturnValueButNone ==
    CallableReturned
        => IF FormatterFaults(exit_message(settings, tf[last.f].opts,
                                           last.body[1].result))
           THEN /\ last.outcome = "raised"
                /\ last.result.name = ExcName("AssertionError")
                /\ last.exit_written = <<>>
           ELSE /\ last.outcome = "returned"
                /\ last.result = last.body[1].result
                /\ Len(last.exit_written) = 1
                /\ (last.result # NoneValue /\ Fits(ReturnShown(last.result)))
                      => /\ Contains(last.exit_written[1],
                                     ReturnShown(last.result) \o <<"\n">>)
                         /\ tf[last.f].opts.trace_rv_type
                               <=> Contains(last.exit_written[1],
                                            TypeShown(last.result))
                /\ (last.result = NoneValue /\ settings.trace_message)
                      => /\ Contains(last.exit_written[1],
                                     <<"<", "-", " ", "E", "X", "I", "T", "\n">>)
                         /\ ~Contains(last.exit_written[1], NoneValue.text)
                         /\ ~Contains(last.exit_written[1], <<"-", "-", "-">>)
                         /\ ~Contains(last.exit_written[1], <<"(", "t", "y", "p", "e">>)

\* a callable returned a value other than none and the EXIT record shows the
\* marker and the type name
C20_Witness ==
    /\ CallableReturned
    /\ last.outcome = "returned"
    /\ last.result # NoneValue
    /\ ~tf[last.f].opts.trace_rv
    /\ tf[last.f].opts.trace_rv_type
    /\ Fits(ReturnShown(last.result))

\* C21: a construction with no argument at all, with more than one positional
\* target, with a target that is not callable, or with a target together with
\* keyword options raises a fault and makes no instance; a binding call of an
\* instance constructed with options only that gives no target, several
\* targets or a target that is not callable raises a fault and leaves the
\* instance without a callable.
Misbound(args) ==
    \/ Len(args) # 1
    \/ args[1] = NotCallable

C21_BindingFailsFast ==
    /\ (/\ last.op = "init"
        /\ \/ last.args = <<>> /\ last.kwargs = <<>>
           \/ last.args # <<>> /\ Misbound(last.args)
           \/ last.args # <<>> /\ last.kwargs # <<>>)
       => last.exc # NoFault /\ ~tf[last.f].made
    /\ (last.op = "init_function" /\ Misbound(last.args))
       => /\ last.exc # NoFault
          /\ last.rv = "nothing"
          /\ tf[last.f].made /\ ~tf[last.f].bound

C21_Witness ==
    /\ last.op = "init_function"
    /\ last.args = <<NotCallable>>
    /\ last.kwargs = <<>>
    /\ last.exc = "AssertionError"
    /\ ~tf[last.f].bound

\* C25: an instance constructed with keyword options only has no callable; a
\* call of it that gives exactly one callable binds it and returns the
\* instance, leaving the stack, the log and the running invocations as they
\* were; an instance that has its callable keeps it, and a call of it is an
\* invocation of the callable, never a binding.
OptionsOnly ==
    (last.op = "init" /\ last.args = <<>> /\ last.exc = NoFault)
    => tf[last.f].made /\ ~tf[last.f].bound

BindingStep(f) ==
    /\ tf[f].made /\ ~tf[f].bound
    /\ last'.op = "init_function" /\ last'.f = f

BindsOnce(f) ==
    /\ (BindingStep(f) /\ last'.args = <<f>> /\ last'.kwargs = <<>>)
       => /\ tf'[f].bound /\ tf'[f].opts = tf[f].opts
          /\ last'.exc = NoFault /\ last'.rv = "self"
          /\ UNCHANGED <<stack, log, flushed, released, wfile, frames, calls, counters>>
    /\ (tf[f].made /\ tf[f].bound)
       => /\ tf'[f] = tf[f]
          /\ ~(last'.op = "init_function" /\ last'.f = f /\ last' # last)
          /\ (calls' # calls /\ last'.f = f) => last'.op \in {"enter", "call"}

C25_BoundOnFirstCallForGood ==
    /\ []OptionsOnly
    /\ [][\A f \in Callables : BindsOnce(f)]_vars

C25_Witness ==
    /\ last.op = "call"
    /\ last.outcome = "returned"
    /\ last.invoked = 1
    /\ tf[last.f].bound
    /\ tf[last.f].opts # default_options(settings)

\* C26: the dummy TraceFunction accepts every construction and binding the
\* real one accepts (one callable, or a subset of the seven options and then
\* one callable), and an invocation of the result gives the callable's value
\* or fault with the log and the stack as they were.
RealAccepts(args, kwargs) ==
    init(Settings(<<FALSE, FALSE, FALSE, TRUE>>, FALSE, TRUE, RunWidth, TRUE,
                  TRUE), args, kwargs).exc = NoFault

C26_DummyAcceptsWhatRealAccepts ==
    /\ (last.op = "dummy_init" /\ RealAccepts(last.args, last.kwargs))
       => last.exc = NoFault /\ tf[last.f].made
    /\ (/\ last.op = "dummy_init_function"
        /\ init_function(NoInstance, last.args, last.kwargs).exc = NoFault)
       => last.exc = NoFault /\ tf[last.f].bound
    /\ last.op = "dummy_call"
       => /\ last.outcome = last.body.kind
          /\ last.result = last.body.result
          /\ log = <<>> /\ stack = <<>>

\* C22: with the function column and class name resolution on, every
\* invocation writes an ENTRY record whose function column is the callable's
\* name, qualified by its class name unless that is "<module>", cut or padded
\* to function_column_width characters.
ScopedName(fn) ==
    IF fn.classname # None /\ fn.classname # ModuleScope
    THEN fn.classname \o <<".">> \o fn.functionname
    ELSE fn.functionname

C22_FunctionColumnQualified ==
    (/\ last.op = "call"
     /\ settings.class_name_resolution
     /\ settings.trace_function)
    => /\ last.entry_written # <<>>
       /\ Len(last.entry_written[1]) >= settings.function_column_width
       /\ SubSeq(last.entry_written[1], 1, settings.function_column_width)
            = Column(ScopedName(TraceFunctionStruct(last.f)),
                     settings.function_column_width)

\* C23: with class name resolution on, whenever __call__ has trace format the
\* ENTRY record of an invocation (the step that counts the call: the stack it
\* leaves is the stack trace_entry ran on, no pop follows on its paths), the
\* top of the ClassNameStack is the class name of the invocation's callable,
\* and whenever it has trace format the EXIT record of an invocation (the
\* step in which the callable of the innermost frame returns, before the
\* pop), the top of the stack is the class name of that frame's callable,
\* whatever the body called in between.
FormatsEntry == calls' = calls + 1

FormatsExit ==
    /\ frames # <<>>
    /\ Len(frames') < Len(frames)
    /\ last'.op = "call" /\ last'.invoked = 1
    /\ last'.body[1].kind = "returned"

OwnScopeOnTopWhenFormatted ==
    /\ (FormatsEntry /\ settings.class_name_resolution)
       => peek(stack', disabled') = TraceFunctionStruct(last'.f).classname
    /\ (FormatsExit /\ settings.class_name_resolution)
       => peek(stack, disabled)
            = TraceFunctionStruct(Last(frames).f).classname

Collapsible(value) ==
    \/ value.type = "list" /\ settings.collapse_lists
    \/ value.type = "dict" /\ settings.collapse_dicts

LengthMarker(value) ==
    IF value.type = "list"
    THEN <<"[", " ", "l", "e", "n", "=">> \o Decimal(value.len) \o <<" ", "]">>
    ELSE <<"{", " ", "l", "e", "n", "=">> \o Decimal(value.len) \o <<" ", "}">>

ValuesOfParameters ==
    {last.args[i] : i \in 1..Len(last.args)}
    \cup {last.kwargs[name] : name \in DOMAIN last.kwargs}
    \cup {TraceFunctionStruct(last.f).defaults[name] :
            name \in {TraceFunctionStruct(last.f).varnames[i] :
                        i \in (Len(last.args) + 1)
                               ..Len(TraceFunctionStruct(last.f).varnames)}
                     \ DOMAIN last.kwargs}

C24_ListsAndDictsCollapsed ==
    /\ (/\ last.op = "call"
        /\ last.entry_written # <<>>
        /\ tf[last.f].opts.trace_args)
       => \A value \in ValuesOfParameters :
             Collapsible(value)
             => /\ Contains(last.entry_written[1], LengthMarker(value))
                /\ ~Contains(last.entry_written[1], value.text)
    /\ (/\ last.op = "call"
        /\ last.outcome = "returned"
        /\ tf[last.f].opts.trace_rv
        /\ Collapsible(last.result))
       => /\ Contains(last.exit_written[1], LengthMarker(last.result))
          /\ ~Contains(last.exit_written[1], last.result.text)

\* Two execution contexts with class name resolution on: every invocation
\* pushes the class name of its callable and ends in trace_entry, so none
\* writes a record, none reaches its callable or ClassNameStack.pop(), and
\* the stack keeps what was pushed, in the order the contexts pushed it.
ThreadsEndInEntry ==
    (settings.configured /\ settings.class_name_resolution)
    => /\ \A t \in Contexts : frames[t].pc \in {"idle", "inserted"}
       /\ Len(stack) = calls
       /\ Len(log) = 1
       /\ last.op = "thread_call"
          => last.outcome = "raised" /\ last.popped = <<>>

\* Two execution contexts with class name resolution off: a context switch
\* inside PyLg.write leaves a record of one context written and not flushed
\* while the other context writes its own.
WrittenNotFlushedAcrossContexts ==
    /\ frames[1].pc = "entry_written"
    /\ frames[2].pc = "entry_written"
    /\ flushed < Len(log) - 1

====
